---- MODULE Spec2Model ----
(***************************************************************************)
(* Process sandbox (experiments/process_sandbox/libsandbox.cc): the        *)
(* pagemap synchronisation service (MemoryServiceProvider), the host-side  *)
(* pagemap adaptor (SharedPagemapAdaptor), the call protocol over the      *)
(* shared memory region (SharedMemoryRegion, SandboxedLibrary::send) and   *)
(* SandboxedLibrary::alloc_in_sandbox.                                     *)
(*                                                                         *)
(* Addresses are AddrBits wide instead of 64, a pagemap bucket (superslab) *)
(* is 2^SUPERSLAB_BITS bytes instead of 2^24 and uint8_t is U8Bits wide    *)
(* instead of 8; all arithmetic keeps the corresponding width.             *)
(***************************************************************************)
EXTENDS Integers, Sequences, FiniteSets, TLC

(* ------------------------------ bounds -------------------------------- *)

\* width of uintptr_t / size_t
AddrBits == 6
\* log2 of the pagemap granularity (snmalloc::SUPERSLAB_BITS)
SUPERSLAB_BITS == 2
\* width of uint8_t
U8Bits == 3
\* sizeof(SharedMemoryRegion): the header in front of a sandbox's heap
HeaderSize == 1
\* number of requests the children send in one behaviour of Spec
MaxRequests == 2
\* number of pagemap operations of the host allocator in one behaviour
MaxHostOps == 2

AddrSpace == 2 ^ AddrBits
AddrVals == 0 .. (AddrSpace - 1)
SUPERSLAB_SIZE == 2 ^ SUPERSLAB_BITS
U8Mod == 2 ^ U8Bits
NUM_LARGE_CLASSES == AddrBits - SUPERSLAB_BITS
NBuckets == AddrSpace \div SUPERSLAB_SIZE
Buckets == 0 .. (NBuckets - 1)

Sandboxes == {1, 2}
Fds == {1, 2}
NoSandbox == 0

(* ------------------------------ state --------------------------------- *)

VARIABLES
    alive,        \* the host process has not been terminated by err()
    ranges,       \* MemoryServiceProvider::ranges: fd -> Sandbox (or none)
    m,            \* MemoryServiceProvider::m: "free", or the thread holding it
    polled,       \* descriptors registered with the poller
    fd_open,      \* descriptor numbers open in the host
    chan,         \* per descriptor: the request waiting in the socket
    resp,         \* per descriptor: the response waiting in the socket
    peer_closed,  \* descriptors whose peer (the child's end) is closed
    pagemap,      \* the host-global (canonical) chunk map
    shared_page,  \* per sandbox: the pagemap page shared with the child
    provider,     \* per sandbox: the SharedMemoryProvider's large-block pool
    sbx,          \* per sandbox: life cycle, descriptor, outstanding request
    svc,          \* the service thread: position in run() and its locals
    host,         \* a host thread: position and locals
    nreq,         \* requests sent so far
    nhost,        \* host allocator operations so far
    shm,          \* SharedMemoryRegion: the fields host and child share
    hostc,        \* the host thread that calls into the sandbox
    childp,       \* the child process of the sandbox
    alloc,        \* a call of alloc_in_sandbox: arguments and outcome
    maps,         \* per sandbox: where its shared memory (shm) is mapped
    kept,         \* the replies a child has read, in order, with its requests
    launch,       \* start_child in a forked child: descriptors and position
    tw            \* the deadline computation of a timed wait

vars == <<alive, ranges, m, polled, fd_open, chan, resp, peer_closed, pagemap,
          shared_page, provider, sbx, svc, host, nreq, nhost, shm, hostc, childp,
          alloc, maps, kept, launch, tw>>
\* the variables of the pagemap service
serviceVars == <<alive, ranges, m, polled, fd_open, chan, resp, peer_closed,
                 pagemap, shared_page, provider, sbx, svc, host, nreq, nhost>>
\* the variables of the call protocol and of alloc_in_sandbox
callVars == <<shm, hostc, childp>>
\* the variables of the mappings' life cycle, of the child's record of its
\* replies and of the launch of a child
extVars == <<maps, kept, launch, tw>>

(* ------------------- memory layout of the sandboxes ------------------- *)

\* platform::SharedMemoryMap shm: a power-of-two sized, aligned mapping; the
\* kernel places it in one of the slots of the address space (maps)
ShmSize == 4 * SUPERSLAB_SIZE
Slots == Sandboxes
SlotBase(slot) == slot * ShmSize
ShmBase(sb) == SlotBase(maps[sb].base)
\* memory_provider(base + sizeof(SharedMemoryRegion), size - sizeof(...))
RangeBase(sb) == ShmBase(sb) + HeaderSize
RangeSize(sb) == ShmSize - HeaderSize
RangeTop(sb) == RangeBase(sb) + RangeSize(sb)

\* SharedMemoryProvider::contains(ptr, size): the object [ptr, ptr + size)
\* lies within the range owned by the provider.
contains(sb, p, sz) ==
    /\ RangeBase(sb) <= p
    /\ p + sz <= RangeTop(sb)

(* --------------------------- the pagemap ------------------------------ *)

CMNotOurs == 0
CMSuperslab == 1
CMMediumslab == 2

\* ChunkmapPagemap::index_for_address
index_for_address(p) == p \div SUPERSLAB_SIZE

\* bits::next_pow2_bits: the smallest b with 2^b >= n
next_pow2_bits(n) ==
    IF n <= 1 THEN 0 ELSE CHOOSE b \in 1 .. AddrBits : 2 ^ b >= n /\ 2 ^ (b - 1) < n

\* value of the k-th (k >= 1) entry after the head of a large allocation
CMLargeRedirect(k) == AddrBits + SUPERSLAB_BITS + next_pow2_bits(k + 1) - 1

\* the buckets index .. index + n - 1 that exist in the table
BucketRun(index, n) == {b \in Buckets : index <= b /\ b < index + n}

\* ChunkMap::set(p, v): one entry
cm_set(pm, p, v) == [pm EXCEPT ![index_for_address(p)] = v]

\* ChunkMap::set_large_size(p, size): the head entry holds log2(size), the
\* entries behind it redirect to the head
cm_set_large_size(pm, p, size) ==
    LET idx == index_for_address(p)
        n == size \div SUPERSLAB_SIZE
    IN  [b \in Buckets |->
            IF b = idx THEN next_pow2_bits(size)
            ELSE IF b \in BucketRun(idx, n) THEN CMLargeRedirect(b - idx)
            ELSE pm[b]]

\* ChunkMap::clear_large_size(p, size): size / SUPERSLAB_SIZE entries
cm_clear_large_size(pm, p, size) ==
    LET idx == index_for_address(p)
        n == size \div SUPERSLAB_SIZE
    IN  [b \in Buckets |-> IF b \in BucketRun(idx, n) THEN CMNotOurs ELSE pm[b]]

(* ------------------------ host service calls -------------------------- *)

LargeKinds == {"MemoryProviderPushLargeStack", "MemoryProviderPopLargeStack",
               "MemoryProviderReserve"}
ChunkMapKinds == {"ChunkMapSet", "ChunkMapSetRange", "ChunkMapClearRange"}
\* a kind value outside the enumeration
UnknownKind == "Unknown"
Kinds == LargeKinds \cup ChunkMapKinds \cup {UnknownKind}

NoMsg == [kind |-> "none", arg0 |-> 0, arg1 |-> 0]
\* fewer bytes than sizeof(HostServiceRequest)
ShortMsg == [kind |-> "short", arg0 |-> 0, arg1 |-> 0]
Request(k, a0, a1) == [kind |-> k, arg0 |-> a0, arg1 |-> a1]
NoReply == [error |-> 0, result |-> 0, sent |-> FALSE, req |-> NoMsg, sb |-> NoSandbox]

\* the requests of Spec, around sandbox sb's range: metadata updates inside
\* the range (one entry, two entries) and just past its end, large-block
\* calls, a kind outside the enumeration
InAddr(sb) == ShmBase(sb) + SUPERSLAB_SIZE
PastAddr(sb) == ShmBase(sb) + ShmSize
Requests(sb) ==
    {Request("ChunkMapSet", InAddr(sb), CMMediumslab),
     Request("ChunkMapSet", PastAddr(sb), CMMediumslab),
     Request("ChunkMapSetRange", InAddr(sb), SUPERSLAB_BITS + 1),
     Request("ChunkMapClearRange", InAddr(sb), SUPERSLAB_BITS),
     Request("MemoryProviderPushLargeStack", InAddr(sb), 0),
     Request("MemoryProviderPushLargeStack", PastAddr(sb), 0),
     Request("MemoryProviderPopLargeStack", 0, 0),
     Request("MemoryProviderReserve", 0, NUM_LARGE_CLASSES),
     Request(UnknownKind, 0, 0)}

\* 1ULL << n: shifting by the width of the type or more is undefined; the
\* hardware either uses the count modulo the width or shifts everything out
ShiftOutcomes(n) ==
    IF n < AddrBits THEN {2 ^ n} ELSE {2 ^ (n % AddrBits), 0}

\* static_cast<uint8_t>(x)
u8(x) == x % U8Mod

is_large_sizeclass(large_size) == large_size < NUM_LARGE_CLASSES
large_sizeclass_to_size(c) == 2 ^ (c + SUPERSLAB_BITS)

(* --------------------- the large-block pool --------------------------- *)

Classes == 0 .. (NUM_LARGE_CLASSES - 1)
EmptyProvider == [stack |-> [c \in Classes |-> <<>>], bump |-> 0]

\* SharedMemoryProvider::push_large_stack
push_large_stack(pr, p, c) ==
    [pr EXCEPT !.stack[c] = <<p>> \o @]

\* SharedMemoryProvider::pop_large_stack: the popped block or null
pop_result(pr, c) == IF pr.stack[c] = <<>> THEN 0 ELSE Head(pr.stack[c])
pop_large_stack(pr, c) ==
    IF pr.stack[c] = <<>> THEN pr ELSE [pr EXCEPT !.stack[c] = Tail(@)]

\* SharedMemoryProvider::reserve<true>: carves an aligned block of the
\* class's size off the unreserved tail of the range, or returns null
reserve_addr(sb, pr, c) ==
    LET sz == large_sizeclass_to_size(c)
        from == RangeBase(sb) + pr.bump
        al == ((from + sz - 1) \div sz) * sz
    IN  IF al + sz <= RangeTop(sb) THEN al ELSE 0
reserve(sb, pr, c) ==
    LET a == reserve_addr(sb, pr, c)
    IN  IF a = 0 THEN pr
        ELSE [pr EXCEPT !.bump = a + large_sizeclass_to_size(c) - RangeBase(sb)]

(* --------------------------- initial state ---------------------------- *)

SvcIdle ==
    [pc |-> "poll", fd |-> 0, rpc |-> NoMsg, s |-> NoSandbox,
     error |-> 1, result |-> 0, index |-> 0, entries |-> 0, i |-> 0, tmp |-> 0,
     written |-> {}, mutated |-> FALSE]
HostIdle ==
    [pc |-> "idle", sb |-> NoSandbox, fd |-> 0, index |-> 0, entries |-> 0,
     i |-> 0, tmp |-> 0]

\* the exit statuses a child can leave (WEXITSTATUS / event.data)
MaxStatus == 2
ExitStatuses == 0 .. MaxStatus
\* wait_for_child_exit has not returned yet
NoReturn == 0 - 1

ShmInit ==
    [is_child_executing |-> FALSE, should_exit |-> FALSE, function_index |-> 0,
     msg_buffer |-> 0, mutex |-> "free", waiters |-> {}, destroyed |-> FALSE]
HostcInit ==
    [pc |-> "idle", ra |-> "idle", ret |-> FALSE, child_exited |-> FALSE,
     outcome |-> "none", ncalls |-> 0, kqueue |-> FALSE,
     expired |-> FALSE, at_deadline |-> FALSE, dtor |-> FALSE,
     child_status |-> 0, retval |-> NoReturn]
ChildInit ==
    [pc |-> "wait_lock", alive |-> TRUE, fn |-> 0, buf |-> 0, status |-> 0]
AllocIdle == [pc |-> "idle", bytes |-> 0, count |-> 0, called |-> FALSE, sz |-> 0,
              null |-> FALSE]
\* the shared memory of sandbox sb is mapped in slot sb, nothing read yet,
\* no child being launched
MapsInit == [sb \in Sandboxes |-> [base |-> sb, live |-> TRUE]]
LaunchIdle == [pc |-> "none"]
TwIdle == [pc |-> "none"]
InitExt ==
    /\ maps = MapsInit
    /\ kept = <<>>
    /\ launch = LaunchIdle /\ tw = TwIdle

InitService ==
    /\ alive = TRUE
    /\ ranges = [fd \in Fds |-> NoSandbox]
    /\ m = "free"
    /\ polled = {}
    /\ fd_open = {}
    /\ chan = [fd \in Fds |-> NoMsg]
    /\ resp = [fd \in Fds |-> NoReply]
    /\ peer_closed = {}
    /\ pagemap = [b \in Buckets |-> CMNotOurs]
    /\ shared_page = [sb \in Sandboxes |-> [b \in Buckets |-> CMNotOurs]]
    /\ provider = [sb \in Sandboxes |-> EmptyProvider]
    /\ sbx = [sb \in Sandboxes |-> [state |-> "none", fd |-> 0, awaiting |-> FALSE]]
    /\ svc = SvcIdle
    /\ host = HostIdle
    /\ nreq = 0
    /\ nhost = 0

Init ==
    /\ InitService
    /\ shm = ShmInit
    /\ hostc = HostcInit
    /\ childp = ChildInit
    /\ alloc = AllocIdle
    /\ InitExt

(* ------------- SandboxedLibrary::SandboxedLibrary (host) --------------- *)

\* socketpair(): the kernel hands out the lowest free descriptor number
LowestFree == CHOOSE fd \in Fds \ fd_open : \A g \in Fds \ fd_open : fd <= g

CtorSocketpair(sb) ==
    /\ alive /\ host.pc = "idle" /\ sbx[sb].state = "none" /\ maps[sb].live
    /\ Fds \ fd_open # {}
    /\ fd_open' = fd_open \cup {LowestFree}
    /\ host' = [host EXCEPT !.pc = "add_range", !.sb = sb, !.fd = LowestFree]
    /\ sbx' = [sbx EXCEPT ![sb].state = "constructing", ![sb].fd = LowestFree]
    /\ UNCHANGED <<callVars, alloc, extVars, alive, ranges, m, polled, chan, resp, peer_closed, pagemap,
                   shared_page, provider, svc, nreq, nhost>>

\* add_range: std::lock_guard g(m)
AddRangeLock ==
    /\ alive /\ host.pc = "add_range" /\ m = "free"
    /\ m' = "host"
    /\ host' = [host EXCEPT !.pc = "add_range_locked"]
    /\ UNCHANGED <<callVars, alloc, extVars, alive, ranges, polled, fd_open, chan, resp, peer_closed,
                   pagemap, shared_page, provider, sbx, svc, nreq, nhost>>

\* add_range that leaves the map as it is
AddRangeInsert_skip ==
    /\ alive /\ host.pc = "add_range_locked"
    /\ ranges' = ranges
    /\ m' = "free"
    /\ host' = [host EXCEPT !.pc = "register_fd"]
    /\ UNCHANGED <<callVars, alloc, extVars, alive, polled, fd_open, chan, resp, peer_closed, pagemap,
                   shared_page, provider, sbx, svc, nreq, nhost>>

\* add_range: ranges[socket_fd] = {memory_provider, page}; unlock
AddRangeInsert ==
    /\ alive /\ host.pc = "add_range_locked"
    /\ ranges' = [ranges EXCEPT ![host.fd] = host.sb]
    /\ m' = "free"
    /\ host' = [host EXCEPT !.pc = "register_fd"]
    /\ UNCHANGED <<callVars, alloc, extVars, alive, polled, fd_open, chan, resp, peer_closed, pagemap,
                   shared_page, provider, sbx, svc, nreq, nhost>>

\* add_range: register_fd(socket_fd)
RegisterFd ==
    /\ alive /\ host.pc = "register_fd"
    /\ polled' = polled \cup {host.fd}
    /\ host' = [host EXCEPT !.pc = "fork"]
    /\ UNCHANGED <<callVars, alloc, extVars, alive, ranges, m, fd_open, chan, resp, peer_closed, pagemap,
                   shared_page, provider, sbx, svc, nreq, nhost>>

\* vfork / pdfork, start_child in the child, the allocator in the parent
CtorFork ==
    /\ alive /\ host.pc = "fork"
    /\ sbx' = [sbx EXCEPT ![host.sb].state = "running"]
    /\ host' = HostIdle
    /\ UNCHANGED <<callVars, alloc, extVars, alive, ranges, m, polled, fd_open, chan, resp, peer_closed,
                   pagemap, shared_page, provider, svc, nreq, nhost>>

(* ------------------------------ the child ------------------------------ *)

\* the child writes one request and waits for the response
ChildSend(sb, req) ==
    /\ sbx[sb].state = "running" /\ ~sbx[sb].awaiting
    /\ chan' = [chan EXCEPT ![sbx[sb].fd] = req]
    /\ sbx' = [sbx EXCEPT ![sb].awaiting = TRUE]
    /\ nreq' = nreq + 1
    /\ UNCHANGED <<callVars, alloc, extVars, alive, ranges, m, polled, fd_open, resp, peer_closed, pagemap,
                   shared_page, provider, svc, host, nhost>>

ChildRecv(sb) ==
    /\ sbx[sb].state = "running" /\ sbx[sb].awaiting
    /\ resp[sbx[sb].fd].sent
    /\ resp' = [resp EXCEPT ![sbx[sb].fd] = NoReply]
    /\ sbx' = [sbx EXCEPT ![sb].awaiting = FALSE]
    /\ UNCHANGED <<callVars, alloc, extVars, alive, ranges, m, polled, fd_open, chan, peer_closed, pagemap,
                   shared_page, provider, svc, host, nreq, nhost>>

\* the child exits or is killed: the kernel closes its end of the socket
ChildExit(sb) ==
    /\ sbx[sb].state = "running"
    /\ sbx' = [sbx EXCEPT ![sb].state = "exited"]
    /\ peer_closed' = peer_closed \cup {sbx[sb].fd}
    /\ UNCHANGED <<callVars, alloc, extVars, alive, ranges, m, polled, fd_open, chan, resp, pagemap,
                   shared_page, provider, svc, host, nreq, nhost>>

(* ------------------- MemoryServiceProvider::run ------------------------ *)

\* poller.poll(fd, eof): a registered descriptor with a request to read, or
\* one whose peer has closed
Poll(fd) ==
    /\ alive /\ svc.pc = "poll" /\ fd \in polled
    /\ \/ /\ chan[fd] # NoMsg
          /\ svc' = [SvcIdle EXCEPT !.pc = "read", !.fd = fd]
       \/ /\ fd \in peer_closed
          /\ svc' = [SvcIdle EXCEPT !.pc = "eof", !.fd = fd]
    /\ UNCHANGED <<callVars, alloc, extVars, alive, ranges, m, polled, fd_open, chan, resp, peer_closed,
                   pagemap, shared_page, provider, sbx, host, nreq, nhost>>

\* if (eof) { std::lock_guard g(m);
EofLock ==
    /\ alive /\ svc.pc = "eof" /\ m = "free"
    /\ m' = "svc"
    /\ svc' = [svc EXCEPT !.pc = "eof_locked"]
    /\ UNCHANGED <<callVars, alloc, extVars, alive, ranges, polled, fd_open, chan, resp, peer_closed,
                   pagemap, shared_page, provider, sbx, host, nreq, nhost>>

\* the eof branch closing the descriptor without erasing the registration
EofErase_keep ==
    /\ alive /\ svc.pc = "eof_locked"
    /\ ranges' = ranges
    /\ fd_open' = fd_open \ {svc.fd}
    /\ polled' = polled \ {svc.fd}
    /\ peer_closed' = peer_closed \ {svc.fd}
    /\ chan' = [chan EXCEPT ![svc.fd] = NoMsg]
    /\ resp' = [resp EXCEPT ![svc.fd] = NoReply]
    /\ sbx' = [sb \in Sandboxes |->
                 IF sbx[sb].fd = svc.fd /\ sbx[sb].state = "exited"
                 THEN [sbx[sb] EXCEPT !.state = "closed"] ELSE sbx[sb]]
    /\ m' = "free"
    /\ svc' = SvcIdle
    /\ UNCHANGED <<callVars, alloc, extVars, alive, pagemap, shared_page, provider, host, nreq, nhost>>

\* r = ranges.find(fd); ranges.erase(r); close(fd); continue; }
\* close() also drops the descriptor from the poller and discards what is
\* still queued on the socket
EofErase ==
    /\ alive /\ svc.pc = "eof_locked"
    /\ ranges' = [ranges EXCEPT ![svc.fd] = NoSandbox]
    /\ fd_open' = fd_open \ {svc.fd}
    /\ polled' = polled \ {svc.fd}
    /\ peer_closed' = peer_closed \ {svc.fd}
    /\ chan' = [chan EXCEPT ![svc.fd] = NoMsg]
    /\ resp' = [resp EXCEPT ![svc.fd] = NoReply]
    /\ sbx' = [sb \in Sandboxes |->
                 IF sbx[sb].fd = svc.fd /\ sbx[sb].state = "exited"
                 THEN [sbx[sb] EXCEPT !.state = "closed"] ELSE sbx[sb]]
    /\ m' = "free"
    /\ svc' = SvcIdle
    /\ UNCHANGED <<callVars, alloc, extVars, alive, pagemap, shared_page, provider, host, nreq, nhost>>

\* read() that takes a short read for a request
Read_ignore_short ==
    /\ alive /\ svc.pc = "read"
    /\ alive' = alive
    /\ svc' = [svc EXCEPT !.pc = "lookup", !.rpc = chan[svc.fd], !.error = 1, !.result = 0]
    /\ chan' = [chan EXCEPT ![svc.fd] = NoMsg]
    /\ UNCHANGED <<callVars, alloc, extVars, ranges, m, polled, fd_open, resp, peer_closed, pagemap,
                   shared_page, provider, sbx, host, nreq, nhost>>

\* read(fd, &rpc, sizeof(HostServiceRequest)); a short read is err(1, ...)
Read ==
    /\ alive /\ svc.pc = "read"
    /\ IF chan[svc.fd] = ShortMsg
       THEN /\ alive' = FALSE
            /\ svc' = [svc EXCEPT !.pc = "dead"]
       ELSE /\ alive' = alive
            /\ svc' = [svc EXCEPT !.pc = "lookup", !.rpc = chan[svc.fd],
                                  !.error = 1, !.result = 0]
    /\ chan' = [chan EXCEPT ![svc.fd] = NoMsg]
    /\ UNCHANGED <<callVars, alloc, extVars, ranges, m, polled, fd_open, resp, peer_closed, pagemap,
                   shared_page, provider, sbx, host, nreq, nhost>>

\* { std::lock_guard g(m);
LookupLock ==
    /\ alive /\ svc.pc = "lookup" /\ m = "free"
    /\ m' = "svc"
    /\ svc' = [svc EXCEPT !.pc = "lookup_locked"]
    /\ UNCHANGED <<callVars, alloc, extVars, alive, ranges, polled, fd_open, chan, resp, peer_closed,
                   pagemap, shared_page, provider, sbx, host, nreq, nhost>>

\* r = ranges.find(fd); if (r == ranges.end()) continue; s = r->second; }
Lookup ==
    /\ alive /\ svc.pc = "lookup_locked"
    /\ m' = "free"
    /\ svc' = IF ranges[svc.fd] = NoSandbox
              THEN SvcIdle
              ELSE [svc EXCEPT !.pc = "dispatch", !.s = ranges[svc.fd]]
    /\ UNCHANGED <<callVars, alloc, extVars, alive, ranges, polled, fd_open, chan, resp, peer_closed,
                   pagemap, shared_page, provider, sbx, host, nreq, nhost>>

\* validate_and_insert with the entry count of a large update one too high
validate_and_insert_extra_entry(s, rpc, sz, pm) ==
    LET address == rpc.arg0
        index == index_for_address(rpc.arg0)
        large_entries == (sz \div SUPERSLAB_SIZE) + 1
        large_safe == contains(s, address, sz)
        set_safe == contains(s, address, SUPERSLAB_SIZE)
    IN  CASE rpc.kind = "ChunkMapSet" ->
               [safe |-> set_safe, index |-> index, entries |-> 1,
                pm |-> IF set_safe THEN cm_set(pm, rpc.arg0, u8(rpc.arg1)) ELSE pm]
          [] rpc.kind = "ChunkMapSetRange" ->
               [safe |-> large_safe, index |-> index, entries |-> large_entries,
                pm |-> IF large_safe THEN cm_set_large_size(pm, address, sz) ELSE pm]
          [] rpc.kind = "ChunkMapClearRange" ->
               [safe |-> large_safe, index |-> index, entries |-> large_entries,
                pm |-> IF large_safe THEN cm_clear_large_size(pm, address, sz) ELSE pm]

\* validate_and_insert up to the copy loop: whether the update is safe, the
\* chunk map after it, and the shared-page entries to copy.  sz is the value
\* of 1ULL << rpc.arg1.
validate_and_insert(s, rpc, sz, pm) ==
    LET address == rpc.arg0
        index == index_for_address(rpc.arg0)
        large_entries == sz \div SUPERSLAB_SIZE
        large_safe == contains(s, address, sz)
        set_safe == contains(s, address, SUPERSLAB_SIZE)
    IN  CASE rpc.kind = "ChunkMapSet" ->
               [safe |-> set_safe, index |-> index, entries |-> 1,
                pm |-> IF set_safe THEN cm_set(pm, rpc.arg0, u8(rpc.arg1)) ELSE pm]
          [] rpc.kind = "ChunkMapSetRange" ->
               [safe |-> large_safe, index |-> index, entries |-> large_entries,
                pm |-> IF large_safe THEN cm_set_large_size(pm, address, sz) ELSE pm]
          [] rpc.kind = "ChunkMapClearRange" ->
               [safe |-> large_safe, index |-> index, entries |-> large_entries,
                pm |-> IF large_safe THEN cm_clear_large_size(pm, address, sz) ELSE pm]

\* case MemoryProviderPushLargeStack without the range check
DispatchPush_unchecked ==
    /\ alive /\ svc.pc = "dispatch" /\ svc.rpc.kind = "MemoryProviderPushLargeStack"
    /\ LET base == svc.rpc.arg0
           large_size == u8(svc.rpc.arg1)
       IN  IF ~is_large_sizeclass(large_size)
           THEN /\ provider' = provider
                /\ svc' = [svc EXCEPT !.pc = "write"]
           ELSE /\ provider' = [provider EXCEPT ![svc.s] =
                                    push_large_stack(@, base, large_size)]
                /\ svc' = [svc EXCEPT !.pc = "write", !.error = 0, !.result = 0]
    /\ UNCHANGED <<callVars, alloc, extVars, alive, ranges, m, polled, fd_open, chan, resp, peer_closed,
                   pagemap, shared_page, sbx, host, nreq, nhost>>

\* case MemoryProviderPushLargeStack
DispatchPush ==
    /\ alive /\ svc.pc = "dispatch" /\ svc.rpc.kind = "MemoryProviderPushLargeStack"
    /\ LET base == svc.rpc.arg0
           large_size == u8(svc.rpc.arg1)
       IN  IF \/ ~is_large_sizeclass(large_size)
              \/ ~contains(svc.s, base, large_sizeclass_to_size(large_size))
           THEN /\ provider' = provider
                /\ svc' = [svc EXCEPT !.pc = "write"]
           ELSE /\ provider' = [provider EXCEPT ![svc.s] =
                                    push_large_stack(@, base, large_size)]
                /\ svc' = [svc EXCEPT !.pc = "write", !.error = 0, !.result = 0]
    /\ UNCHANGED <<callVars, alloc, extVars, alive, ranges, m, polled, fd_open, chan, resp, peer_closed,
                   pagemap, shared_page, sbx, host, nreq, nhost>>

\* case MemoryProviderPopLargeStack returning the top block of the class
\* without taking it off the stack
DispatchPop_peek ==
    /\ alive /\ svc.pc = "dispatch" /\ svc.rpc.kind = "MemoryProviderPopLargeStack"
    /\ LET large_size == u8(svc.rpc.arg1)
       IN  IF ~is_large_sizeclass(large_size)
           THEN /\ provider' = provider
                /\ svc' = [svc EXCEPT !.pc = "write"]
           ELSE /\ provider' = provider
                /\ svc' = [svc EXCEPT !.pc = "write", !.error = 0,
                              !.result = pop_result(provider[svc.s], large_size)]
    /\ UNCHANGED <<callVars, alloc, extVars, alive, ranges, m, polled, fd_open, chan, resp,
                   peer_closed, pagemap, shared_page, sbx, host, nreq, nhost>>

\* case MemoryProviderPopLargeStack
DispatchPop ==
    /\ alive /\ svc.pc = "dispatch" /\ svc.rpc.kind = "MemoryProviderPopLargeStack"
    /\ LET large_size == u8(svc.rpc.arg1)
       IN  IF ~is_large_sizeclass(large_size)
           THEN /\ provider' = provider
                /\ svc' = [svc EXCEPT !.pc = "write"]
           ELSE /\ provider' = [provider EXCEPT ![svc.s] =
                                    pop_large_stack(@, large_size)]
                /\ svc' = [svc EXCEPT !.pc = "write", !.error = 0,
                              !.result = pop_result(provider[svc.s], large_size)]
    /\ UNCHANGED <<callVars, alloc, extVars, alive, ranges, m, polled, fd_open, chan, resp, peer_closed,
                   pagemap, shared_page, sbx, host, nreq, nhost>>

\* case MemoryProviderReserve
DispatchReserve ==
    /\ alive /\ svc.pc = "dispatch" /\ svc.rpc.kind = "MemoryProviderReserve"
    /\ LET large_size == u8(svc.rpc.arg1)
       IN  IF ~is_large_sizeclass(large_size)
           THEN /\ provider' = provider
                /\ svc' = [svc EXCEPT !.pc = "write"]
           ELSE /\ provider' = [provider EXCEPT ![svc.s] =
                                    reserve(svc.s, @, large_size)]
                /\ svc' = [svc EXCEPT !.pc = "write", !.error = 0,
                              !.result = reserve_addr(svc.s, provider[svc.s], large_size)]
    /\ UNCHANGED <<callVars, alloc, extVars, alive, ranges, m, polled, fd_open, chan, resp, peer_closed,
                   pagemap, shared_page, sbx, host, nreq, nhost>>

\* the metadata cases applying the update whatever the range check says
DispatchChunkMap_unchecked ==
    /\ alive /\ svc.pc = "dispatch" /\ svc.rpc.kind \in ChunkMapKinds
    /\ \E sz \in ShiftOutcomes(svc.rpc.arg1) :
         LET v == validate_and_insert(svc.s, svc.rpc, sz, pagemap)
         IN  /\ pagemap' = cm_set(pagemap, svc.rpc.arg0, u8(svc.rpc.arg1))
             /\ svc' = [svc EXCEPT
                          !.pc = IF v.safe /\ v.entries > 0 THEN "copy_read" ELSE "write",
                          !.error = IF v.safe THEN 0 ELSE 1,
                          !.index = v.index, !.entries = v.entries, !.i = 0,
                          !.mutated = TRUE]
    /\ UNCHANGED <<callVars, alloc, extVars, alive, ranges, m, polled, fd_open, chan, resp, peer_closed,
                   shared_page, provider, sbx, host, nreq, nhost>>

\* case ChunkMapSet / ChunkMapSetRange / ChunkMapClearRange:
\* reply.error = !validate_and_insert(s, rpc), up to the copy loop
DispatchChunkMap ==
    /\ alive /\ svc.pc = "dispatch" /\ svc.rpc.kind \in ChunkMapKinds
    /\ \E sz \in ShiftOutcomes(svc.rpc.arg1) :
         LET v == validate_and_insert(svc.s, svc.rpc, sz, pagemap)
         IN  /\ pagemap' = v.pm
             /\ svc' = [svc EXCEPT
                          !.pc = IF v.safe /\ v.entries > 0 THEN "copy_read" ELSE "write",
                          !.error = IF v.safe THEN 0 ELSE 1,
                          !.index = v.index, !.entries = v.entries, !.i = 0,
                          !.mutated = v.safe]
    /\ UNCHANGED <<callVars, alloc, extVars, alive, ranges, m, polled, fd_open, chan, resp, peer_closed,
                   shared_page, provider, sbx, host, nreq, nhost>>

\* a switch with a default case that reports success
DispatchUnknown_ok ==
    /\ alive /\ svc.pc = "dispatch"
    /\ svc.rpc.kind \notin (LargeKinds \cup ChunkMapKinds)
    /\ svc' = [svc EXCEPT !.pc = "write", !.error = 0]
    /\ UNCHANGED <<callVars, alloc, extVars, alive, ranges, m, polled, fd_open, chan, resp, peer_closed,
                   pagemap, shared_page, provider, sbx, host, nreq, nhost>>

\* no case matches: the switch falls through with reply = {1, 0}
DispatchUnknown ==
    /\ alive /\ svc.pc = "dispatch"
    /\ svc.rpc.kind \notin (LargeKinds \cup ChunkMapKinds)
    /\ svc' = [svc EXCEPT !.pc = "write"]
    /\ UNCHANGED <<callVars, alloc, extVars, alive, ranges, m, polled, fd_open, chan, resp, peer_closed,
                   pagemap, shared_page, provider, sbx, host, nreq, nhost>>

\* copy loop of validate_and_insert: pm.get(address + i * SUPERSLAB_SIZE)
CopyRead ==
    /\ alive /\ svc.pc = "copy_read"
    /\ svc' = [svc EXCEPT !.pc = "copy_write",
                          !.tmp = pagemap[svc.index + svc.i]]
    /\ UNCHANGED <<callVars, alloc, extVars, alive, ranges, m, polled, fd_open, chan, resp, peer_closed,
                   pagemap, shared_page, provider, sbx, host, nreq, nhost>>

\* copy loop of validate_and_insert: s.shared_page[index + i] = ...; i++
CopyWrite ==
    /\ alive /\ svc.pc = "copy_write"
    /\ shared_page' = [shared_page EXCEPT ![svc.s][svc.index + svc.i] = svc.tmp]
    /\ svc' = [svc EXCEPT
                 !.pc = IF svc.i + 1 < svc.entries THEN "copy_read" ELSE "write",
                 !.i = svc.i + 1,
                 !.written = @ \cup {svc.index + svc.i}]
    /\ UNCHANGED <<callVars, alloc, extVars, alive, ranges, m, polled, fd_open, chan, resp, peer_closed,
                   pagemap, provider, sbx, host, nreq, nhost>>

\* the loop going back to poll without replying to a rejected request
Write_drop_rejected ==
    /\ alive /\ svc.pc = "write"
    /\ resp' = IF svc.error = 1 THEN resp
               ELSE [resp EXCEPT ![svc.fd] =
                       [error |-> svc.error, result |-> svc.result, sent |-> TRUE,
                        req |-> svc.rpc, sb |-> svc.s]]
    /\ svc' = SvcIdle
    /\ UNCHANGED <<callVars, alloc, extVars, alive, ranges, m, polled, fd_open, chan, peer_closed, pagemap,
                   shared_page, provider, sbx, host, nreq, nhost>>

\* write(fd, &reply, sizeof(HostServiceResponse))
Write ==
    /\ alive /\ svc.pc = "write"
    /\ resp' = [resp EXCEPT ![svc.fd] =
                   [error |-> svc.error, result |-> svc.result, sent |-> TRUE,
                    req |-> svc.rpc, sb |-> svc.s]]
    /\ svc' = SvcIdle
    /\ UNCHANGED <<callVars, alloc, extVars, alive, ranges, m, polled, fd_open, chan, peer_closed, pagemap,
                   shared_page, provider, sbx, host, nreq, nhost>>

(* ---------------------- SharedPagemapAdaptor --------------------------- *)

\* the host's allocator for sandbox sb exists once the constructor is done
HasAllocator(sb) == sbx[sb].state \in {"running", "exited"}
\* superslab-aligned chunks the host's allocator gets from the provider
HostAddrs(sb) == {ShmBase(sb) + SUPERSLAB_SIZE}

HostOp(sb, p, pm, entries) ==
    /\ alive /\ host.pc = "idle" /\ HasAllocator(sb) /\ nhost < MaxHostOps
    /\ pagemap' = pm
    /\ nhost' = nhost + 1
    /\ host' = [host EXCEPT !.pc = IF entries > 0 THEN "update_child_read" ELSE "idle",
                            !.sb = IF entries > 0 THEN sb ELSE NoSandbox,
                            !.index = IF entries > 0 THEN index_for_address(p) ELSE 0,
                            !.entries = IF entries > 0 THEN entries ELSE 0]
    /\ UNCHANGED <<callVars, alloc, extVars, alive, ranges, m, polled, fd_open, chan, resp, peer_closed,
                   shared_page, provider, sbx, svc, nreq>>

\* set_slab(Superslab*) / set_slab(Mediumslab*): global_pagemap.set_slab
set_slab(sb, p, v) == HostOp(sb, p, cm_set(pagemap, p, v), 1)

\* clear_slab(Superslab*) / clear_slab(Mediumslab*)
clear_slab(sb, p) == HostOp(sb, p, cm_set(pagemap, p, CMNotOurs), 1)

\* set_large_size(p, size)
set_large_size(sb, p, size) ==
    HostOp(sb, p, cm_set_large_size(pagemap, p, size), size \div SUPERSLAB_SIZE)

\* clear_large_size(p, size)
clear_large_size(sb, p, size) ==
    HostOp(sb, p, cm_clear_large_size(pagemap, p, size), size \div SUPERSLAB_SIZE)

\* update_child: global_pagemap.get(p + i * SUPERSLAB_SIZE)
UpdateChildRead ==
    /\ alive /\ host.pc = "update_child_read"
    /\ host' = [host EXCEPT !.pc = "update_child_write",
                            !.tmp = pagemap[host.index + host.i]]
    /\ UNCHANGED <<callVars, alloc, extVars, alive, ranges, m, polled, fd_open, chan, resp, peer_closed,
                   pagemap, shared_page, provider, sbx, svc, nreq, nhost>>

\* update_child: shared_page[index + i] = ...; i++
UpdateChildWrite ==
    /\ alive /\ host.pc = "update_child_write"
    /\ shared_page' = [shared_page EXCEPT ![host.sb][host.index + host.i] = host.tmp]
    /\ host' = IF host.i + 1 < host.entries
               THEN [host EXCEPT !.pc = "update_child_read", !.i = host.i + 1]
               ELSE HostIdle
    /\ UNCHANGED <<callVars, alloc, extVars, alive, ranges, m, polled, fd_open, chan, resp, peer_closed,
                   pagemap, provider, sbx, svc, nreq, nhost>>

(* --------------------------- specifications ---------------------------- *)

Service ==
    \/ \E fd \in Fds : Poll(fd)
    \/ EofLock
    \/ EofErase
    \/ Read
    \/ LookupLock
    \/ Lookup
    \/ DispatchPush
    \/ DispatchPop
    \/ DispatchReserve
    \/ DispatchChunkMap
    \/ DispatchUnknown
    \/ CopyRead
    \/ CopyWrite
    \/ Write

Constructor ==
    \/ \E sb \in Sandboxes : CtorSocketpair(sb)
    \/ AddRangeLock
    \/ AddRangeInsert
    \/ RegisterFd
    \/ CtorFork

\* the pagemap updates of the allocator the host keeps for sandbox sb
HostAllocator(sb) ==
    \/ \E p \in HostAddrs(sb) : set_slab(sb, p, CMSuperslab)
    \/ \E p \in HostAddrs(sb) : clear_slab(sb, p)
    \/ \E p \in HostAddrs(sb) : set_large_size(sb, p, 2 * SUPERSLAB_SIZE)
    \/ \E p \in HostAddrs(sb) : clear_large_size(sb, p, 2 * SUPERSLAB_SIZE)
    \/ UpdateChildRead
    \/ UpdateChildWrite

Child ==
    \/ nreq < MaxRequests /\ \E sb \in Sandboxes : \E req \in Requests(sb) :
          ChildSend(sb, req)
    \/ nreq < MaxRequests /\ \E sb \in Sandboxes : ChildSend(sb, ShortMsg)
    \/ \E sb \in Sandboxes : ChildRecv(sb)
    \/ \E sb \in Sandboxes : ChildExit(sb)

Next == Service \/ Constructor \/ Child

\* the service, a host thread constructing two sandboxes and the children,
\* all interleaved
Spec == Init /\ [][Next]_vars

\* the service thread is an operating-system thread of its own and keeps
\* being scheduled; a host thread inside add_range leaves it again
SpecFair == Spec /\ WF_vars(Service) /\ WF_vars(AddRangeInsert)

\* one sandbox and one request, drawn from all address-sized arguments
NextV ==
    \/ CtorSocketpair(1)
    \/ AddRangeLock
    \/ AddRangeInsert
    \/ RegisterFd
    \/ CtorFork
    \/ nreq = 0 /\ sbx[1].state = "running" /\
          \E k \in Kinds, a0 \in AddrVals, a1 \in AddrVals :
             ChildSend(1, Request(k, a0, a1))
    \/ ChildRecv(1)
    \/ \E fd \in Fds : Poll(fd)
    \/ Read
    \/ LookupLock
    \/ Lookup
    \/ DispatchPush
    \/ DispatchPop
    \/ DispatchReserve
    \/ DispatchChunkMap
    \/ DispatchUnknown
    \/ CopyRead
    \/ CopyWrite
    \/ Write

SpecV == Init /\ [][NextV]_vars

\* one sandbox: the service applying the child's requests while the host
\* thread allocates and frees through the sandbox's allocator
NextA ==
    \/ CtorSocketpair(1)
    \/ AddRangeLock
    \/ AddRangeInsert
    \/ RegisterFd
    \/ CtorFork
    \/ HostAllocator(1)
    \/ nreq < MaxRequests /\ \E req \in Requests(1) : ChildSend(1, req)
    \/ ChildRecv(1)
    \/ ChildExit(1)
    \/ Service

SpecA == Init /\ [][NextA]_vars

(* ------------------------------ claims --------------------------------- *)

\* the size a metadata request implies: one bucket for ChunkMapSet, 2^arg1
\* for the range kinds (a log-size of AddrBits or more exceeds every range)
SpanSize(rpc) ==
    IF rpc.kind = "ChunkMapSet" THEN SUPERSLAB_SIZE
    ELSE IF rpc.arg1 >= AddrBits THEN AddrSpace
    ELSE 2 ^ rpc.arg1
\* [arg0, arg0 + size) lies inside the range of sandbox s
SpanInRange(s, rpc) ==
    /\ RangeBase(s) <= rpc.arg0
    /\ rpc.arg0 + SpanSize(rpc) <= RangeTop(s)
\* the service has applied a metadata request and is about to reply
ChunkMapDone == svc.pc = "write" /\ svc.rpc.kind \in ChunkMapKinds

\* C1: a ChunkMapSet / SetRange / ClearRange request whose implied span is
\* not inside the requesting sandbox's range is answered with error = 1 and
\* changes neither the canonical table nor the child's shared page.
C1_OutOfRangeRejected ==
    (ChunkMapDone /\ ~SpanInRange(svc.s, svc.rpc)) =>
        (svc.error = 1 /\ ~svc.mutated /\ svc.written = {})

\* C2: a metadata request whose span is inside the range is answered with
\* error = 0, the canonical table holds the update, and the shared page is
\* rewritten at exactly the span size / SUPERSLAB_SIZE entries starting at
\* the index of arg0, each equal to the canonical entry.
C2_InRangeApplied ==
    (ChunkMapDone /\ SpanInRange(svc.s, svc.rpc)) =>
        LET idx == index_for_address(svc.rpc.arg0)
            run == BucketRun(idx, SpanSize(svc.rpc) \div SUPERSLAB_SIZE)
        IN  /\ svc.error = 0
            /\ svc.written = run
            /\ Cardinality(run) = SpanSize(svc.rpc) \div SUPERSLAB_SIZE
            /\ \A b \in run : shared_page[svc.s][b] = pagemap[b]
            /\ \A b \in Buckets \ run : shared_page[svc.s][b] = CMNotOurs
            /\ CASE svc.rpc.kind = "ChunkMapSet" -> pagemap[idx] = u8(svc.rpc.arg1)
                 [] svc.rpc.kind = "ChunkMapSetRange" ->
                        /\ pagemap[idx] = svc.rpc.arg1
                        /\ \A b \in run \ {idx} : pagemap[b] # CMNotOurs
                 [] svc.rpc.kind = "ChunkMapClearRange" ->
                        \A b \in run : pagemap[b] = CMNotOurs
C2_Witness ==
    /\ ChunkMapDone /\ SpanInRange(svc.s, svc.rpc)
    /\ svc.rpc.kind = "ChunkMapSetRange"
    /\ svc.error = 0
    /\ Cardinality(svc.written) = 2

\* the service has handled a large-block request and is about to reply
LargeDone == svc.pc = "write" /\ svc.rpc.kind \in LargeKinds

\* C5 as stated: push, pop and reserve change the pool only if arg0 with
\* the size of class arg1 lies inside the range; otherwise error = 1 and
\* the pool is unchanged.
C5_AddressValidatedForAll ==
    LargeDone =>
        LET ok == /\ svc.rpc.arg1 < NUM_LARGE_CLASSES
                  /\ contains(svc.s, svc.rpc.arg0,
                              large_sizeclass_to_size(svc.rpc.arg1 % NUM_LARGE_CLASSES))
        IN  ~ok => (svc.error = 1 /\ provider[svc.s] = EmptyProvider)

\* C5 amended: push changes the pool only if the low U8Bits bits of arg1
\* are a large size class and [arg0, arg0 + size of that class) lies inside
\* the range; pop and reserve carry no address and act iff the low bits of
\* arg1 are a large size class; every other request gets error = 1 and
\* leaves the pool unchanged.
C5_PoolGuarded ==
    LargeDone =>
        LET c == u8(svc.rpc.arg1)
            ok == /\ is_large_sizeclass(c)
                  /\ svc.rpc.kind = "MemoryProviderPushLargeStack" =>
                        contains(svc.s, svc.rpc.arg0, large_sizeclass_to_size(c))
        IN  /\ (svc.error = 0) <=> ok
            /\ ~ok => provider[svc.s] = EmptyProvider
            /\ (ok /\ svc.rpc.kind = "MemoryProviderPushLargeStack") =>
                  provider[svc.s].stack[c] = <<svc.rpc.arg0>>
C5_Witness ==
    /\ LargeDone /\ svc.rpc.kind = "MemoryProviderPushLargeStack"
    /\ svc.error = 0
    /\ provider[svc.s] # EmptyProvider

\* the positions of run() between reading a request and replying to it
Handling == {"lookup", "lookup_locked", "dispatch", "copy_read", "copy_write", "write"}

Registered(sb) ==
    \/ sbx[sb].state \in {"running", "exited"}
    \/ sbx[sb].state = "constructing" /\ host.pc \in {"register_fd", "fork"}

\* C6: once the eof of descriptor d is handled, d's registration is gone and
\* d is closed; when the number d is used again by a new sandbox, a request
\* on d is handled with the new owner's range and page only, and the old
\* channel's close never erases the new owner's registration.
C6_ReusedFdNotMisattributed ==
    /\ [][(svc.pc = "eof_locked" /\ svc'.pc = "poll") =>
            (ranges'[svc.fd] = NoSandbox /\ svc.fd \notin fd_open')]_vars
    /\ [](svc.pc \in {"dispatch", "copy_read", "copy_write", "write"} =>
            (sbx[svc.s].fd = svc.fd /\ sbx[svc.s].state \in {"running", "exited"}))
    /\ [](\A sb \in Sandboxes : Registered(sb) => ranges[sbx[sb].fd] = sb)
C6_Witness ==
    /\ sbx[1].state = "closed" /\ sbx[1].fd = 1
    /\ sbx[2].fd = 1
    /\ svc.pc = "write" /\ svc.fd = 1 /\ svc.s = 2 /\ svc.error = 0

\* C7: from the lookup of the channel's range to the end of the update of
\* the canonical table and the child's page, the service thread holds the
\* mutex of the registration map.
C7_MutexHeldThroughUpdate ==
    svc.pc \in {"dispatch", "copy_read", "copy_write"} => m = "svc"

\* the buckets that cover the range of sandbox sb
RangeBuckets(sb) ==
    {b \in Buckets : index_for_address(RangeBase(sb)) <= b
                     /\ b <= index_for_address(RangeTop(sb) - 1)}
\* neither the service nor a host allocator is in the middle of an update
Quiescent == svc.pc = "poll" /\ host.pc = "idle"

\* C8: in every quiescent state each shared-page entry that covers the
\* sandbox's range equals the canonical entry of the same bucket.
C8_SharedPageMatchesCanonical ==
    Quiescent =>
        \A sb \in Sandboxes : \A b \in RangeBuckets(sb) :
            shared_page[sb][b] = pagemap[b]

\* C9 as stated: only the service thread writes the canonical table.
C9_OnlyServiceWritesTable ==
    [][pagemap' # pagemap => svc.pc = "dispatch" /\ svc'.pc # "dispatch"]_vars

\* C9 amended: the canonical table is written only by the service thread
\* applying a metadata request that passed the range check of the
\* requesting sandbox, and by a host thread that updates the pagemap
\* through a sandbox's SharedPagemapAdaptor; registration, eof handling,
\* large-block calls and replies never write it.
C9_TableWriters ==
    [][pagemap' # pagemap =>
         \/ /\ svc.pc = "dispatch" /\ svc'.pc # "dispatch"
            /\ svc.rpc.kind \in ChunkMapKinds
            /\ svc'.error = 0
            /\ \E sz \in ShiftOutcomes(svc.rpc.arg1) :
                  contains(svc.s, svc.rpc.arg0,
                           IF svc.rpc.kind = "ChunkMapSet" THEN SUPERSLAB_SIZE ELSE sz)
            /\ host' = host
         \/ /\ host.pc = "idle" /\ host'.pc = "update_child_read"
            /\ HasAllocator(host'.sb)
            /\ svc' = svc]_vars
C9_Witness ==
    /\ host.pc = "update_child_read"
    /\ pagemap[host.index] # CMNotOurs
    /\ svc.pc = "copy_read" /\ svc.mutated

(* ------------- SharedMemoryRegion: signal and the waits ----------------- *)

\* number of calls the host makes in one behaviour
MaxCalls == 2
\* function indexes and argument frames of the calls
Functions == {1, 2}

CallUnchanged == UNCHANGED <<serviceVars, alloc, extVars>>

\* pthread_cond_signal: one of the waiters (if any) stops waiting and goes on
\* to take the mutex again
Woken(waiters) == IF waiters = {} THEN {{}} ELSE {{w} : w \in waiters}
WakeHost(w) == IF "host" \in w THEN [hostc EXCEPT !.pc = "tw_reacquire"] ELSE hostc
WakeChild(w) == IF "child" \in w THEN [childp EXCEPT !.pc = "wait_reacquire"] ELSE childp

\* signal(new_state) in the host: pthread_mutex_lock
HostSignalLock ==
    /\ hostc.pc = "sig_lock" /\ shm.mutex = "free"
    /\ shm' = [shm EXCEPT !.mutex = "host"]
    /\ hostc' = [hostc EXCEPT !.pc = "sig_set"]
    /\ UNCHANGED childp /\ CallUnchanged

\* signal(true) without the pthread_cond_signal
HostSignalSet_no_wake ==
    /\ hostc.pc = "sig_set"
    /\ shm' = [shm EXCEPT !.is_child_executing = TRUE, !.mutex = "free"]
    /\ childp' = childp
    /\ hostc' = [hostc EXCEPT !.pc = hostc.ra]
    /\ CallUnchanged

\* signal(true) in the host: is_child_executing = new_state;
\* pthread_cond_signal; pthread_mutex_unlock
HostSignalSet ==
    /\ hostc.pc = "sig_set"
    /\ \E w \in Woken(shm.waiters) :
         /\ shm' = [shm EXCEPT !.is_child_executing = TRUE, !.mutex = "free",
                               !.waiters = @ \ w]
         /\ childp' = WakeChild(w)
    /\ hostc' = [hostc EXCEPT !.pc = hostc.ra]
    /\ CallUnchanged

\* wait(expected, timeout) in the host: clock_gettime, the deadline,
\* pthread_mutex_lock
TimedWaitLock ==
    /\ hostc.pc = "tw_lock" /\ shm.mutex = "free"
    /\ shm' = [shm EXCEPT !.mutex = "host"]
    /\ hostc' = [hostc EXCEPT !.pc = "tw_wait", !.expired = FALSE, !.at_deadline = FALSE]
    /\ UNCHANGED childp /\ CallUnchanged

\* pthread_cond_timedwait: releases the mutex and blocks
TimedWaitBlock ==
    /\ hostc.pc = "tw_wait"
    /\ shm' = [shm EXCEPT !.mutex = "free", !.waiters = @ \cup {"host"}]
    /\ hostc' = [hostc EXCEPT !.pc = "tw_blocked"]
    /\ UNCHANGED childp /\ CallUnchanged

\* pthread_cond_timedwait: the deadline passes; expired and at_deadline
\* record that it has, and whether the flag had the expected value by then
TimedWaitTimeout ==
    /\ hostc.pc = "tw_blocked"
    /\ shm' = [shm EXCEPT !.waiters = @ \ {"host"}]
    /\ hostc' = [hostc EXCEPT !.pc = "tw_reacquire", !.expired = TRUE,
                              !.at_deadline = (shm.is_child_executing = FALSE)]
    /\ UNCHANGED childp /\ CallUnchanged

\* pthread_cond_timedwait: a spurious wake-up, before the deadline and
\* without a signal
TimedWaitSpurious ==
    /\ hostc.pc = "tw_blocked"
    /\ shm' = [shm EXCEPT !.waiters = @ \ {"host"}]
    /\ hostc' = [hostc EXCEPT !.pc = "tw_reacquire"]
    /\ UNCHANGED childp /\ CallUnchanged

\* pthread_cond_timedwait: takes the mutex again before it returns
TimedWaitReacquire ==
    /\ hostc.pc = "tw_reacquire" /\ shm.mutex = "free"
    /\ shm' = [shm EXCEPT !.mutex = "host"]
    /\ hostc' = [hostc EXCEPT !.pc = "tw_check"]
    /\ UNCHANGED childp /\ CallUnchanged

\* bool ret = expected == is_child_executing; pthread_mutex_unlock;
\* back in send: while (!wait(false, ...)) { if (has_child_exited()) ...
TimedWaitCheck ==
    /\ hostc.pc = "tw_check"
    /\ shm' = [shm EXCEPT !.mutex = "free"]
    /\ hostc' = IF shm.is_child_executing = FALSE
                THEN [hostc EXCEPT !.pc = "idle", !.ret = TRUE, !.outcome = "returned"]
                ELSE [hostc EXCEPT !.pc = "probe", !.ret = FALSE]
    /\ UNCHANGED childp /\ CallUnchanged

(* ------------------------ SandboxedLibrary::send ------------------------ *)

\* shared_mem->function_index = idx; shared_mem->msg_buffer = ptr;
\* then shared_mem->signal(true) and the wait loop
send(idx, ptr) ==
    /\ hostc.pc = "idle" /\ hostc.ncalls < MaxCalls
    /\ shm' = [shm EXCEPT !.function_index = idx, !.msg_buffer = ptr]
    /\ hostc' = [hostc EXCEPT !.pc = "sig_lock", !.ra = "tw_lock",
                              !.outcome = "none", !.ncalls = @ + 1]
    /\ UNCHANGED childp /\ CallUnchanged

\* has_child_exited with USE_KQUEUE_PROCDESC: shared_mem->signal(true) first
ProbeSignal ==
    /\ hostc.pc = "probe" /\ hostc.kqueue
    /\ hostc' = [hostc EXCEPT !.pc = "sig_lock", !.ra = "probe_poll"]
    /\ UNCHANGED <<shm, childp>> /\ CallUnchanged

\* has_child_exited: kevent with a zero timeout / waitpid(WNOHANG); in send:
\* throw std::runtime_error if the child has exited, else wait again
has_child_exited ==
    /\ \/ hostc.pc = "probe" /\ ~hostc.kqueue
       \/ hostc.pc = "probe_poll"
    /\ hostc' = IF childp.alive
                THEN [hostc EXCEPT !.pc = "tw_lock"]
                ELSE [hostc EXCEPT !.pc = "idle", !.child_exited = TRUE,
                                   !.child_status = childp.status,
                                   !.outcome = "failed"]
    /\ UNCHANGED <<shm, childp>> /\ CallUnchanged

(* ---------------- the child: wait(true), run, signal(false) ------------- *)

\* wait(expected): pthread_mutex_lock
ChildWaitLock ==
    /\ childp.alive /\ childp.pc = "wait_lock" /\ shm.mutex = "free"
    /\ shm' = [shm EXCEPT !.mutex = "child"]
    /\ childp' = [childp EXCEPT !.pc = "wait_check"]
    /\ UNCHANGED hostc /\ CallUnchanged

\* wait(true): while (expected != is_child_executing) pthread_cond_wait;
\* pthread_mutex_unlock; then the runner exits if should_exit is set
ChildWaitCheck ==
    /\ childp.alive /\ childp.pc = "wait_check"
    /\ IF shm.is_child_executing = TRUE
       THEN /\ shm' = [shm EXCEPT !.mutex = "free"]
            /\ \E st \in ExitStatuses :
                 childp' = IF shm.should_exit
                           THEN [childp EXCEPT !.alive = FALSE, !.pc = "exited",
                                               !.status = st]
                           ELSE [childp EXCEPT !.pc = "run"]
       ELSE /\ shm' = [shm EXCEPT !.mutex = "free", !.waiters = @ \cup {"child"}]
            /\ childp' = [childp EXCEPT !.pc = "wait_blocked"]
    /\ UNCHANGED hostc /\ CallUnchanged

\* pthread_cond_wait returns: takes the mutex again
ChildWaitReacquire ==
    /\ childp.alive /\ childp.pc = "wait_reacquire" /\ shm.mutex = "free"
    /\ shm' = [shm EXCEPT !.mutex = "child"]
    /\ childp' = [childp EXCEPT !.pc = "wait_check"]
    /\ UNCHANGED hostc /\ CallUnchanged

\* the runner calls the function function_index with the frame msg_buffer
ChildRun ==
    /\ childp.alive /\ childp.pc = "run"
    /\ childp' = [childp EXCEPT !.pc = "sig_lock", !.fn = shm.function_index,
                                !.buf = shm.msg_buffer]
    /\ UNCHANGED <<shm, hostc>> /\ CallUnchanged

\* signal(false) in the child: pthread_mutex_lock
ChildSignalLock ==
    /\ childp.alive /\ childp.pc = "sig_lock" /\ shm.mutex = "free"
    /\ shm' = [shm EXCEPT !.mutex = "child"]
    /\ childp' = [childp EXCEPT !.pc = "sig_set"]
    /\ UNCHANGED hostc /\ CallUnchanged

\* signal(false) in the child: the flag, pthread_cond_signal, unlock
ChildSignalSet ==
    /\ childp.alive /\ childp.pc = "sig_set"
    /\ \E w \in Woken(shm.waiters) :
         /\ shm' = [shm EXCEPT !.is_child_executing = FALSE, !.mutex = "free",
                               !.waiters = @ \ w]
         /\ hostc' = WakeHost(w)
    /\ childp' = [childp EXCEPT !.pc = "wait_lock"]
    /\ CallUnchanged

\* the child exits or is killed, wherever it is: a waiter disappears, a
\* mutex it holds stays locked (the mutex is not a robust one)
ChildDie ==
    /\ childp.alive
    /\ \E st \in ExitStatuses :
         childp' = [childp EXCEPT !.alive = FALSE, !.pc = "exited", !.status = st]
    /\ shm' = [shm EXCEPT !.waiters = @ \ {"child"}]
    /\ UNCHANGED hostc /\ CallUnchanged

HostCall ==
    \/ HostSignalLock
    \/ HostSignalSet
    \/ TimedWaitLock
    \/ TimedWaitBlock
    \/ TimedWaitTimeout
    \/ TimedWaitSpurious
    \/ TimedWaitReacquire
    \/ TimedWaitCheck
    \/ ProbeSignal
    \/ has_child_exited

ChildStep ==
    \/ ChildWaitLock
    \/ ChildWaitCheck
    \/ ChildWaitReacquire
    \/ ChildRun
    \/ ChildSignalLock
    \/ ChildSignalSet

NextCall ==
    \/ \E idx \in Functions, ptr \in Functions : send(idx, ptr)
    \/ HostCall
    \/ ChildStep
    \/ ChildDie

\* the build: with or without USE_KQUEUE_PROCDESC
InitCall ==
    /\ InitService
    /\ shm = ShmInit
    /\ hostc \in {[HostcInit EXCEPT !.kqueue = k] : k \in BOOLEAN}
    /\ childp = ChildInit
    /\ alloc = AllocIdle
    /\ InitExt

SpecCall == InitCall /\ [][NextCall]_vars
\* host thread and child process are scheduled fairly; a timed wait's
\* deadline passes
SpecCallFair == SpecCall /\ WF_vars(HostCall) /\ WF_vars(ChildStep)

\* a send() is outstanding
SendOutstanding == hostc.pc # "idle"

\* C4: if the child exits while a send() is outstanding, the send()
\* eventually terminates (reporting a failure); it never blocks forever.
C4_SendTerminatesAfterChildExit ==
    (~childp.alive /\ SendOutstanding) ~> ~SendOutstanding

(* ------------------ SandboxedLibrary::alloc_in_sandbox ------------------ *)

\* snmalloc::bits::umul(a, b, overflow): the product in size_t and whether
\* it overflowed
umul(a, b) == [sz |-> (a * b) % AddrSpace, overflow |-> a * b >= AddrSpace]

\* alloc_in_sandbox without the overflow check
alloc_in_sandbox_unchecked(bytes, count) ==
    [null |-> FALSE, called |-> TRUE, sz |-> umul(bytes, count).sz]

\* alloc_in_sandbox(bytes, count): nullptr on overflow, else
\* allocator->alloc(sz)
alloc_in_sandbox(bytes, count) ==
    LET r == umul(bytes, count)
    IN  IF r.overflow
        THEN [null |-> TRUE, called |-> FALSE, sz |-> 0]
        ELSE [null |-> FALSE, called |-> TRUE, sz |-> r.sz]

AllocCall ==
    /\ alloc.pc = "call"
    /\ LET r == alloc_in_sandbox(alloc.bytes, alloc.count)
       IN  alloc' = [alloc EXCEPT !.pc = "done", !.null = r.null,
                                  !.called = r.called, !.sz = r.sz]
    /\ UNCHANGED <<serviceVars, callVars, extVars>>

InitAlloc ==
    /\ InitService
    /\ shm = ShmInit
    /\ hostc = HostcInit
    /\ childp = ChildInit
    /\ alloc \in {[AllocIdle EXCEPT !.pc = "call", !.bytes = b, !.count = c] :
                     b \in AddrVals, c \in AddrVals}
    /\ InitExt

\* every pair of address-sized arguments, one call each
SpecAlloc == InitAlloc /\ [][AllocCall]_vars

\* C10: alloc_in_sandbox(bytes, count) returns null without calling the
\* allocator when bytes * count exceeds the largest size_t, and otherwise
\* calls the allocator with exactly bytes * count.
C10_OverflowReturnsNull ==
    alloc.pc = "done" =>
        IF alloc.bytes * alloc.count > AddrSpace - 1
        THEN alloc.null /\ ~alloc.called
        ELSE alloc.called /\ alloc.sz = alloc.bytes * alloc.count
C10_Witness ==
    /\ alloc.pc = "done"
    /\ alloc.bytes * alloc.count = AddrSpace
    /\ alloc.null /\ ~alloc.called

(* ------------- the life cycle of the sandboxes' mappings ---------------- *)

\* shm(...) in the constructor's initialiser list: mmap places the shared
\* memory in any slot of the address space that holds no live mapping
CtorMapShm(sb, slot) ==
    /\ alive /\ host.pc = "idle" /\ sbx[sb].state = "none" /\ ~maps[sb].live
    /\ \A o \in Sandboxes : maps[o].live => maps[o].base # slot
    /\ maps' = [maps EXCEPT ![sb] = [base |-> slot, live |-> TRUE]]
    /\ UNCHANGED <<serviceVars, callVars, alloc, kept, launch, tw>>

\* ~SandboxedLibrary: wait_for_child_exit() has returned, the child has
\* exited; close(socket_fd) closes the descriptor-passing socket, and the
\* members are destroyed: shm is unmapped.  The registration in
\* MemoryServiceProvider::ranges is left to the service's eof branch.
Destructor(sb) ==
    /\ alive /\ host.pc = "idle" /\ maps[sb].live
    /\ sbx[sb].state \in {"exited", "closed"}
    /\ maps' = [maps EXCEPT ![sb].live = FALSE]
    /\ UNCHANGED <<serviceVars, callVars, alloc, kept, launch, tw>>

NextLife ==
    \/ \E sb \in Sandboxes : \E slot \in Slots : CtorMapShm(sb, slot)
    \/ \E sb \in Sandboxes : CtorSocketpair(sb)
    \/ AddRangeLock
    \/ AddRangeInsert
    \/ RegisterFd
    \/ CtorFork
    \/ \E sb \in Sandboxes : Destructor(sb)
    \/ nreq < MaxRequests /\ \E sb \in Sandboxes :
          ChildSend(sb, Request("ChunkMapSet", InAddr(sb), CMMediumslab))
    \/ \E sb \in Sandboxes : ChildRecv(sb)
    \/ \E sb \in Sandboxes : ChildExit(sb)
    \/ \E fd \in Fds : Poll(fd)
    \/ EofLock
    \/ EofErase
    \/ Read
    \/ LookupLock
    \/ Lookup
    \/ DispatchChunkMap
    \/ CopyRead
    \/ CopyWrite
    \/ Write

\* no sandbox constructed yet, nothing mapped
InitLife ==
    /\ InitService
    /\ shm = ShmInit
    /\ hostc = HostcInit
    /\ childp = ChildInit
    /\ alloc = AllocIdle
    /\ maps = [sb \in Sandboxes |-> [base |-> 0, live |-> FALSE]]
    /\ kept = <<>>
    /\ launch = LaunchIdle /\ tw = TwIdle

\* sandboxes created and destroyed while the service runs
SpecLife == InitLife /\ [][NextLife]_vars

\* the sandboxes that have a registration in the service's map
RegisteredSandboxes == {ranges[fd] : fd \in Fds} \ {NoSandbox}

\* C11: at every point in time the memory ranges of any two distinct
\* sandboxes that have a registration in the service's map are disjoint,
\* whatever the order of creations, channel closes and destructions.
C11_RegisteredRangesDisjoint ==
    \A a \in RegisteredSandboxes : \A b \in RegisteredSandboxes \ {a} :
        RangeTop(a) <= RangeBase(b) \/ RangeTop(b) <= RangeBase(a)

(* ------------- push followed by pop of a large block -------------------- *)

\* pools a sandbox's provider can be in: empty, or with blocks pushed before
PoolBlock(i) == SlotBase(1) + i * SUPERSLAB_SIZE
Pools ==
    {EmptyProvider,
     push_large_stack(EmptyProvider, PoolBlock(1), 0),
     push_large_stack(push_large_stack(EmptyProvider, PoolBlock(1), 0), PoolBlock(2), 0),
     push_large_stack(EmptyProvider, PoolBlock(2), 1)}

\* what the child keeps of an exchange: the request, the reply, and (for the
\* statement of properties) the pool as the request left it
Kept(req, error, result, pool) ==
    [req |-> req, error |-> error, result |-> result, pool |-> pool]

\* the child reads the response and keeps it
ChildRecvKeep(sb) ==
    /\ sbx[sb].state = "running" /\ sbx[sb].awaiting
    /\ resp[sbx[sb].fd].sent
    /\ kept' = Append(kept, Kept(resp[sbx[sb].fd].req, resp[sbx[sb].fd].error,
                                 resp[sbx[sb].fd].result, provider[sb]))
    /\ resp' = [resp EXCEPT ![sbx[sb].fd] = NoReply]
    /\ sbx' = [sbx EXCEPT ![sb].awaiting = FALSE]
    /\ UNCHANGED <<callVars, alloc, maps, launch, tw, alive, ranges, m, polled, fd_open, chan,
                   peer_closed, pagemap, shared_page, provider, svc, host, nreq, nhost>>

\* size-class arguments: every large class and the first value past them
ClassArgs == 0 .. NUM_LARGE_CLASSES

\* one sandbox whose child sends a push of any address and class and then,
\* on the same channel, a pop of any class
NextP ==
    \/ Len(kept) = 1 /\ \E a \in AddrVals, c \in ClassArgs :
          ChildSend(1, Request("MemoryProviderPushLargeStack", a, c))
    \/ Len(kept) = 2 /\ \E c \in ClassArgs :
          ChildSend(1, Request("MemoryProviderPopLargeStack", 0, c))
    \/ ChildRecvKeep(1)
    \/ ChildExit(1)
    \/ \E fd \in Fds : Poll(fd)
    \/ EofLock
    \/ EofErase
    \/ Read
    \/ LookupLock
    \/ Lookup
    \/ DispatchPush
    \/ DispatchPop
    \/ Write

\* sandbox 1 is constructed and its child runs; its pool is any of Pools
InitP ==
    /\ alive = TRUE
    /\ ranges = [fd \in Fds |-> IF fd = 1 THEN 1 ELSE NoSandbox]
    /\ m = "free"
    /\ polled = {1}
    /\ fd_open = {1}
    /\ chan = [fd \in Fds |-> NoMsg]
    /\ resp = [fd \in Fds |-> NoReply]
    /\ peer_closed = {}
    /\ pagemap = [b \in Buckets |-> CMNotOurs]
    /\ shared_page = [sb \in Sandboxes |-> [b \in Buckets |-> CMNotOurs]]
    /\ \E pool \in Pools :
          /\ provider = [sb \in Sandboxes |-> IF sb = 1 THEN pool ELSE EmptyProvider]
          /\ kept = <<Kept(NoMsg, 0, 0, pool)>>
    /\ sbx = [sb \in Sandboxes |->
                IF sb = 1 THEN [state |-> "running", fd |-> 1, awaiting |-> FALSE]
                ELSE [state |-> "none", fd |-> 0, awaiting |-> FALSE]]
    /\ svc = SvcIdle
    /\ host = HostIdle
    /\ nreq = 0
    /\ nhost = 0
    /\ shm = ShmInit
    /\ hostc = HostcInit
    /\ childp = ChildInit
    /\ alloc = AllocIdle
    /\ maps = MapsInit
    /\ launch = LaunchIdle /\ tw = TwIdle

SpecP == InitP /\ [][NextP]_vars

\* the child has the replies to a push of an address that is in range for
\* its class and to a pop of the same class
PushPopDone ==
    /\ Len(kept) = 3
    /\ kept[2].req.arg1 \in Classes
    /\ contains(1, kept[2].req.arg0, large_sizeclass_to_size(kept[2].req.arg1))
    /\ kept[3].req.arg1 = kept[2].req.arg1

\* C12: a push of an address x that is in range for its class, followed on
\* the same channel by a pop of that class, gets error = 0 twice, the pop
\* returns x, and the pool is left as it was before the push.
C12_PushThenPopReturnsBlock ==
    PushPopDone =>
        /\ kept[2].error = 0
        /\ kept[3].error = 0
        /\ kept[3].result = kept[2].req.arg0
        /\ kept[3].pool = kept[1].pool
C12_Witness ==
    /\ PushPopDone
    /\ kept[1].pool # EmptyProvider
    /\ kept[2].pool # kept[1].pool
    /\ kept[3].result = kept[2].req.arg0
    /\ kept[3].pool = kept[1].pool

(* ------------------- the untimed wait and signal ------------------------ *)

\* a thread that keeps trying to take the mutex gets it when the mutex is
\* released again and again: the host leaves it free for the whole of each
\* timed wait
SpecCallSF == SpecCall /\ WF_vars(HostCall) /\ SF_vars(ChildStep)

\* the child is in wait(true)
InWait == childp.alive /\ childp.pc \in {"wait_lock", "wait_check", "wait_blocked",
                                         "wait_reacquire"}

\* wait(true) returns in this step: the child leaves the loop and unlocks
WaitReturns ==
    /\ childp.alive /\ childp.pc = "wait_check"
    /\ childp'.pc \in {"run", "exited"}
    /\ shm'.mutex = "free"

\* C13: the untimed wait(expected) returns only in a state where
\* is_child_executing = expected, and no wake-up is lost: a process that is
\* in (or enters) wait(expected) once the other has signalled expected
\* returns from it, whatever the interleaving.
C13_WaitReturnsOnExpected ==
    /\ [][WaitReturns => shm.is_child_executing = TRUE /\ shm'.is_child_executing = TRUE]_vars
    /\ (InWait /\ shm.is_child_executing = TRUE) ~> ~InWait
C13_Witness ==
    /\ childp.alive /\ childp.pc = "wait_reacquire"
    /\ shm.is_child_executing = TRUE
    /\ hostc.pc = "tw_blocked"

(* ----------------------- the timed wait's result ------------------------ *)

\* wait(false, timeout) returns in this step
TimedWaitReturns == hostc.pc = "tw_check" /\ hostc'.pc # "tw_check"

\* the flag had the expected value at some moment of this wait that was
\* before the deadline (while the host waits only the child writes the
\* flag, and only to the expected value)
MetInTime ==
    IF hostc.expired THEN hostc.at_deadline ELSE shm.is_child_executing = FALSE

\* C14: the timed wait returns true if and only if the flag had the expected
\* value before the deadline, and returns false only when the deadline has
\* passed; whether the flag is as expected on entry, changes during the
\* wait or only after the deadline, and across spurious wake-ups.
C14_TimedWaitResult ==
    [][TimedWaitReturns =>
          /\ hostc'.ret = MetInTime
          /\ ~hostc'.ret => hostc.expired]_vars

(* ------------------------ the states of one call ------------------------ *)

\* the step that takes a call from Idle or Completed to Dispatched: the flag
\* goes from false to true
FlagRaised == shm.is_child_executing = FALSE /\ shm'.is_child_executing = TRUE

\* send() returns normally in this step
SendReturns == hostc.outcome # "returned" /\ hostc'.outcome = "returned"

\* C15: each call goes Idle -> Dispatched -> Completed -> Idle: the flag is
\* raised only by send's own signal(true), after function_index and
\* msg_buffer were written; neither field changes while the call is
\* outstanding; send returns normally only once the child has signalled
\* false; and the child runs a call with the values send wrote for it.
C15_CallStateMachine ==
    /\ [][FlagRaised => hostc.pc = "sig_set" /\ hostc.ra = "tw_lock"]_vars
    /\ [][SendOutstanding /\ hostc'.pc # "idle" =>
             /\ shm'.function_index = shm.function_index
             /\ shm'.msg_buffer = shm.msg_buffer]_vars
    /\ [][SendReturns => shm.is_child_executing = FALSE /\ childp.pc # "run"]_vars
    /\ [][childp.pc = "run" /\ childp'.pc = "sig_lock" =>
             /\ childp'.fn = shm.function_index
             /\ childp'.buf = shm.msg_buffer
             /\ SendOutstanding]_vars

(* ------------- wait_for_child_exit and ~SandboxedLibrary ---------------- *)

\* where wait_for_child_exit returns to: the destructor's next statement or
\* the caller
ExitReturn(in_dtor) == IF in_dtor THEN "destroy" ELSE "idle"

\* wait_for_child_exit that signals without setting should_exit
wait_for_child_exit_no_flag(in_dtor) ==
    /\ hostc.pc = "idle"
    /\ IF hostc.child_exited
       THEN /\ hostc' = [hostc EXCEPT !.pc = ExitReturn(in_dtor), !.dtor = in_dtor,
                                      !.outcome = "exited",
                                      !.retval = hostc.child_status]
            /\ shm' = shm
       ELSE /\ hostc' = [hostc EXCEPT !.pc = "sig_lock", !.ra = "exit_wait",
                                      !.dtor = in_dtor]
            /\ shm' = shm
    /\ UNCHANGED childp /\ CallUnchanged

\* wait_for_child_exit, called by the user or (in_dtor) as the first
\* statement of ~SandboxedLibrary: if (child_exited) return child_status;
\* shared_mem->should_exit = true; shared_mem->signal(true)
wait_for_child_exit(in_dtor) ==
    /\ hostc.pc = "idle"
    /\ IF hostc.child_exited
       THEN /\ hostc' = [hostc EXCEPT !.pc = ExitReturn(in_dtor), !.dtor = in_dtor,
                                      !.outcome = "exited",
                                      !.retval = hostc.child_status]
            /\ shm' = shm
       ELSE /\ hostc' = [hostc EXCEPT !.pc = "sig_lock", !.ra = "exit_wait",
                                      !.dtor = in_dtor]
            /\ shm' = [shm EXCEPT !.should_exit = TRUE]
    /\ UNCHANGED childp /\ CallUnchanged

\* the blocking wait returning although the child still runs
WaitChild_no_block ==
    /\ hostc.pc = "exit_wait"
    /\ hostc' = [hostc EXCEPT !.pc = ExitReturn(hostc.dtor), !.outcome = "exited",
                              !.child_exited = IF hostc.kqueue THEN @ ELSE TRUE,
                              !.child_status = IF hostc.kqueue THEN @ ELSE childp.status,
                              !.retval = IF hostc.kqueue THEN childp.status ELSE 1]
    /\ UNCHANGED <<shm, childp>> /\ CallUnchanged

\* kevent without a timeout / waitpid(child_proc, 0): blocks until the child
\* has exited; the kqueue build returns event.data and records nothing, the
\* waitpid build records child_status and child_exited and returns true
WaitChild ==
    /\ hostc.pc = "exit_wait" /\ ~childp.alive
    /\ hostc' = [hostc EXCEPT !.pc = ExitReturn(hostc.dtor), !.outcome = "exited",
                              !.child_exited = IF hostc.kqueue THEN @ ELSE TRUE,
                              !.child_status = IF hostc.kqueue THEN @ ELSE childp.status,
                              !.retval = IF hostc.kqueue THEN childp.status ELSE 1]
    /\ UNCHANGED <<shm, childp>> /\ CallUnchanged

\* ~SandboxedLibrary after wait_for_child_exit: shared_mem->destroy()
\* (pthread_mutex_destroy, pthread_cond_destroy), close(socket_fd)
destroy ==
    /\ hostc.pc = "destroy"
    /\ shm' = [shm EXCEPT !.destroyed = TRUE]
    /\ hostc' = [hostc EXCEPT !.pc = "gone"]
    /\ UNCHANGED childp /\ CallUnchanged

HostExit ==
    \/ WaitChild
    \/ destroy

NextExit ==
    \/ \E idx \in Functions, ptr \in Functions : send(idx, ptr)
    \/ \E in_dtor \in BOOLEAN : wait_for_child_exit(in_dtor)
    \/ HostCall
    \/ HostExit
    \/ ChildStep
    \/ ChildDie

SpecExit == InitCall /\ [][NextExit]_vars
\* host thread and child process are scheduled
SpecExitFair == SpecExit /\ WF_vars(HostCall) /\ WF_vars(ChildStep)

\* wait_for_child_exit is past its test of child_exited and has not returned
ShuttingDown ==
    /\ hostc.ra = "exit_wait"
    /\ hostc.pc \in {"sig_lock", "sig_set", "exit_wait"}

\* C16: on shutdown should_exit is set before the host signals true, so a
\* live child woken by that signal reads should_exit = true (it never goes
\* on to run a call), and a child idle in wait(true) is woken and exits.
C16_ShutdownExitsChild ==
    /\ [][ShuttingDown /\ FlagRaised => shm.should_exit]_vars
    /\ [][ShuttingDown /\ childp.pc # "run" => childp'.pc # "run"]_vars
    /\ (ShuttingDown /\ childp.alive) ~> ~childp.alive
C16_Witness ==
    /\ ShuttingDown /\ hostc.pc = "exit_wait"
    /\ childp.alive /\ childp.pc = "wait_reacquire"
    /\ shm.should_exit /\ shm.is_child_executing = TRUE

\* the destructor is past wait_for_child_exit
PastExitWait == hostc.pc \in {"destroy", "gone"}

\* C17: destroying a Sandbox Instance blocks until the child has exited:
\* the destructor gets past wait_for_child_exit, and the mutex and condition
\* variable are destroyed, only when the child process has exited, also
\* when the exit was seen by an earlier failed call or an earlier
\* wait_for_child_exit.
C17_DestroyAfterChildExit ==
    /\ PastExitWait => ~childp.alive
    /\ shm.destroyed => ~childp.alive /\ hostc.pc = "gone"
C17_Witness ==
    /\ shm.destroyed
    /\ hostc.child_exited
    /\ shm.should_exit = FALSE

(* ------------------- start_child: the descriptor table ------------------ *)

\* enum SandboxFileDescriptors
SharedMemRegion == 3
PageMapPage == SharedMemRegion + 1
FDSocket == PageMapPage + 1
MainLibrary == FDSocket + 1
PageMapUpdates == MainLibrary + 1
OtherLibraries == PageMapUpdates + 1
\* libdirs.size()
NumLibdirs == 3
last_fd == OtherLibraries + NumLibdirs

\* largest descriptor number below last_fd that an input can have on entry
MaxInFd == 7
\* descriptor numbers the four inputs can have on entry: in the region that
\* start_child populates, or at last_fd
InFds == (SharedMemRegion .. MaxInFd) \cup {last_fd}
\* the limit on open descriptors of the process: too small for the
\* descriptors start_child creates, or ample
FdLimits == {last_fd + NumLibdirs, 2 * last_fd + NumLibdirs}
FdTable == 0 .. (2 * last_fd + NumLibdirs - 1)

\* the descriptors start_child handles, in the order it moves them, and
\* what each refers to
FdVars == <<"shm_fd", "pagemap_mem", "fd_socket", "malloc_rpc_socket", "library",
            "libdirfds0", "libdirfds1", "libdirfds2">>
NumInputs == 4
\* the order of the dup2 calls and their targets
Dup2Order == <<"shm_fd", "pagemap_mem", "fd_socket", "library", "malloc_rpc_socket",
               "libdirfds0", "libdirfds1", "libdirfds2">>
Dup2Target(j) == SharedMemRegion + j - 1

\* lowest free descriptor below the limit, -1 (EMFILE) when there is none
lowest_free(fds, limit) ==
    LET free == {d \in FdTable : d < limit /\ fds[d] = "none"}
    IN  IF free = {} THEN 0 - 1 ELSE CHOOSE d \in free : \A e \in free : d <= e

\* dup(x): the new descriptor, -1 (EBADF) if x is not an open descriptor
dup(fds, limit, x) ==
    IF x \notin FdTable \/ fds[x] = "none" THEN 0 - 1 ELSE lowest_free(fds, limit)
\* the table after a call that returned descriptor d for the object obj
Installed(fds, d, obj) == IF d \in FdTable THEN [fds EXCEPT ![d] = obj] ELSE fds

\* move_fd leaving its loop at once
move_fd_done_always(x) == TRUE
\* move_fd: while (x < last_fd) x = dup(x) -- the loop's exit test
move_fd_done(x) == ~(x < last_fd)

\* the child after vfork / pdfork, entering start_child: standard input,
\* output and error are open, the four inputs are distinct descriptors
LaunchStart(ins, limit, ndebug, vforked) ==
    [pc |-> "assert", k |-> 1, j |-> 1, x |-> ins[1], ins |-> ins,
     fds |-> [d \in FdTable |->
                IF d < SharedMemRegion THEN "stdio"
                ELSE IF \E n \in 1 .. NumInputs : ins[n] = d
                     THEN FdVars[CHOOSE n \in 1 .. NumInputs : ins[n] = d]
                     ELSE "none"],
     v |-> [name \in {FdVars[n] : n \in 1 .. Len(FdVars)} |->
              IF \E n \in 1 .. NumInputs : FdVars[n] = name
              THEN ins[CHOOSE n \in 1 .. NumInputs : FdVars[n] = name]
              ELSE 0 - 1],
     limit |-> limit, ndebug |-> ndebug, tick |-> FALSE,
     parent |-> IF vforked THEN "suspended" ELSE "running"]

\* the child is gone or runs the library runner: a vfork parent resumes
Ended(how) == [launch EXCEPT !.pc = how, !.parent = "running"]

LaunchUnchanged == UNCHANGED <<serviceVars, callVars, alloc, maps, kept, tw>>

\* int library = open(library_name, O_RDONLY); if (library < 0) _exit(-1);
OpenLibrary ==
    /\ launch.pc = "open" /\ FdVars[launch.k] = "library"
    /\ \E ok \in BOOLEAN :
         LET d == IF ok THEN lowest_free(launch.fds, launch.limit) ELSE 0 - 1
         IN  launch' = IF d < 0 THEN Ended("exited")
                       ELSE [launch EXCEPT !.pc = "assert", !.x = d,
                                           !.fds = Installed(launch.fds, d, "library")]
    /\ LaunchUnchanged

\* move_fd(open(libdirs.at(i), O_DIRECTORY)): the open, unchecked
OpenLibdir ==
    /\ launch.pc = "open" /\ FdVars[launch.k] # "library"
    /\ \E ok \in BOOLEAN :
         LET d == IF ok THEN lowest_free(launch.fds, launch.limit) ELSE 0 - 1
         IN  launch' = [launch EXCEPT !.pc = "assert", !.x = d,
                                      !.fds = Installed(launch.fds, d, FdVars[launch.k])]
    /\ LaunchUnchanged

\* move_fd: assert(x >= 0), compiled out with NDEBUG
MoveFdAssert ==
    /\ launch.pc = "assert"
    /\ launch' = IF launch.x < 0 /\ ~launch.ndebug
                 THEN Ended("aborted")
                 ELSE [launch EXCEPT !.pc = "loop"]
    /\ LaunchUnchanged

\* move_fd: one iteration of while (x < last_fd) x = dup(x)
MoveFdDup ==
    /\ launch.pc = "loop" /\ ~move_fd_done(launch.x)
    /\ LET d == dup(launch.fds, launch.limit, launch.x)
       IN  launch' = [launch EXCEPT !.x = d, !.tick = ~@,
                        !.fds = IF d < 0 THEN launch.fds
                                ELSE Installed(launch.fds, d, launch.fds[launch.x])]
    /\ LaunchUnchanged

\* move_fd returns x; start_child goes on to the next descriptor, and after
\* the last one to the dup2 calls
MoveFdReturn ==
    /\ launch.pc = "loop" /\ move_fd_done(launch.x)
    /\ LET moved == [launch EXCEPT !.v[FdVars[launch.k]] = launch.x]
       IN  launch' =
             IF launch.k = Len(FdVars) THEN [moved EXCEPT !.pc = "dup2", !.j = 1]
             ELSE IF launch.k < NumInputs
                  THEN [moved EXCEPT !.pc = "assert", !.k = @ + 1,
                                     !.x = launch.v[FdVars[launch.k + 1]]]
                  ELSE [moved EXCEPT !.pc = "open", !.k = @ + 1]
    /\ LaunchUnchanged

\* fd = dup2(fd, target): the target now refers to what fd refers to
Dup2 ==
    /\ launch.pc = "dup2"
    /\ LET name == Dup2Order[launch.j]
           old == launch.v[name]
           ok == old \in FdTable /\ launch.fds[old] # "none"
       IN  launch' = [launch EXCEPT
                        !.fds = IF ok THEN [@ EXCEPT ![Dup2Target(launch.j)] = launch.fds[old]]
                                ELSE @,
                        !.v[name] = IF ok THEN Dup2Target(launch.j) ELSE 0 - 1,
                        !.j = IF launch.j = Len(Dup2Order) THEN @ ELSE @ + 1,
                        !.pc = IF launch.j = Len(Dup2Order) THEN "closefrom" ELSE @]
    /\ LaunchUnchanged

\* closefrom(last_fd)
Closefrom ==
    /\ launch.pc = "closefrom"
    /\ launch' = [launch EXCEPT !.pc = "execve",
                    !.fds = [d \in FdTable |-> IF d < last_fd THEN launch.fds[d] ELSE "none"]]
    /\ LaunchUnchanged

\* execve(librunnerpath, args, env); _exit(EXIT_FAILURE) if it returns
Execve ==
    /\ launch.pc = "execve"
    /\ \E ok \in BOOLEAN : launch' = Ended(IF ok THEN "running" ELSE "exited")
    /\ LaunchUnchanged

NextLaunch ==
    \/ OpenLibrary
    \/ OpenLibdir
    \/ MoveFdAssert
    \/ MoveFdDup
    \/ MoveFdReturn
    \/ Dup2
    \/ Closefrom
    \/ Execve

\* every assignment of distinct descriptors to the four inputs, both
\* descriptor limits, with and without NDEBUG, vfork or pdfork
InitLaunch ==
    /\ InitService
    /\ shm = ShmInit /\ hostc = HostcInit /\ childp = ChildInit /\ alloc = AllocIdle
    /\ maps = MapsInit /\ kept = <<>> /\ tw = TwIdle
    /\ \E ins \in [1 .. NumInputs -> InFds], limit \in FdLimits, ndebug, vforked \in BOOLEAN :
         /\ \A a, b \in 1 .. NumInputs : a # b => ins[a] # ins[b]
         /\ launch = LaunchStart(ins, limit, ndebug, vforked)

SpecLaunch == InitLaunch /\ [][NextLaunch]_vars

\* the descriptor that name refers to still holds name's object
Holds(name) == launch.v[name] \in FdTable /\ launch.fds[launch.v[name]] = name

\* C18: whatever descriptors the inputs had on entry (also ones inside slots
\* 3..10), at execve slot 3 is the shared memory, 4 the pagemap page, 5 the
\* fd socket, 6 the main library, 7 the metadata-update socket and 8, 9, 10
\* the library directories in order; no dup2 overwrites a descriptor that a
\* later dup2 still needs as its source.
C18_SlotsAtExecve ==
    /\ launch.pc = "dup2" => \A j \in launch.j .. Len(Dup2Order) : Holds(Dup2Order[j])
    /\ launch.pc = "execve" =>
          /\ launch.fds[SharedMemRegion] = "shm_fd"
          /\ launch.fds[PageMapPage] = "pagemap_mem"
          /\ launch.fds[FDSocket] = "fd_socket"
          /\ launch.fds[MainLibrary] = "library"
          /\ launch.fds[PageMapUpdates] = "malloc_rpc_socket"
          /\ launch.fds[OtherLibraries] = "libdirfds0"
          /\ launch.fds[OtherLibraries + 1] = "libdirfds1"
          /\ launch.fds[OtherLibraries + 2] = "libdirfds2"
          /\ \A d \in FdTable : d >= last_fd => launch.fds[d] = "none"
C18_Witness ==
    /\ launch.pc = "execve"
    /\ launch.ins[1] = PageMapPage /\ launch.ins[2] = SharedMemRegion
    /\ launch.ins[3] = PageMapUpdates /\ launch.ins[4] = FDSocket
    /\ launch.fds[SharedMemRegion] = "shm_fd"
    /\ launch.fds[PageMapPage] = "pagemap_mem"
    /\ launch.fds[OtherLibraries + 2] = "libdirfds2"

\* the child keeps executing start_child
SpecLaunchFair == SpecLaunch /\ WF_vars(NextLaunch)

\* the child path is over: the library runner runs, or the child is gone
LaunchEnded == launch.pc \in {"running", "exited", "aborted"}

\* C19: every failure in start_child (the library or a library directory
\* cannot be opened, dup fails, execve fails) ends the child path -- it
\* neither returns nor loops forever -- and the host goes on running.
C19_LaunchFailureTerminates ==
    /\ <>LaunchEnded
    /\ <>(launch.parent = "running")

(* --------------- the constructor when socketpair fails ------------------ *)

\* if (socketpair(AF_UNIX, SOCK_SEQPACKET, 0, malloc_rpc_sockets))
\*   err(1, "Failed to create socket pair");  -- err() exits the process
CtorSocketpairFail(sb) ==
    /\ alive /\ host.pc = "idle" /\ sbx[sb].state = "none" /\ maps[sb].live
    /\ alive' = FALSE
    /\ sbx' = [sbx EXCEPT ![sb].state = "failed"]
    /\ UNCHANGED <<callVars, alloc, extVars, ranges, m, polled, fd_open, chan, resp,
                   peer_closed, pagemap, shared_page, provider, svc, host, nreq, nhost>>

NextSetup ==
    \/ Service
    \/ Constructor
    \/ Child
    \/ \E sb \in Sandboxes : CtorSocketpairFail(sb)

SpecSetup == Init /\ [][NextSetup]_vars

\* the construction of some Sandbox Instance has failed in the host
SetupFailed == \E sb \in Sandboxes : sbx[sb].state = "failed"

\* C20: when the socket pair of a Sandbox Instance cannot be created, only
\* the construction of that instance is aborted: the host process keeps
\* running (and with it the service that the other sandboxes depend on).
C20_SetupFailureIsLocal == SetupFailed => alive

(* ----------------------------- short reads ------------------------------ *)

\* the service thread takes a short read off the channel in this step
ShortRead == svc.pc = "read" /\ svc'.pc # "read" /\ chan[svc.fd] = ShortMsg

\* no reply is written (a child may take one that was written before), and
\* canonical table, shared pages and pools stay as they are
NothingApplied ==
    /\ \A fd \in Fds : resp'[fd].sent => resp'[fd] = resp[fd]
    /\ pagemap' = pagemap
    /\ shared_page' = shared_page
    /\ provider' = provider

\* C21: a read that returns a byte count other than the request size
\* terminates the whole host process; no response is written for it and no
\* canonical-table entry, shared-page entry or pool is modified for it.
C21_ShortReadIsFatal ==
    /\ [][ShortRead => ~alive' /\ NothingApplied]_vars
    /\ [][~alive => ~alive' /\ NothingApplied]_vars
C21_Witness ==
    /\ ~alive /\ svc.pc = "dead"
    /\ resp[svc.fd].sent = FALSE
    /\ \E fd \in Fds \ {svc.fd} : ranges[fd] # NoSandbox /\ chan[fd] # NoMsg

(* ------------------- kinds outside the enumeration ---------------------- *)

\* the run loop is handling a well-formed request of no enumerated kind
HandlingUnknown ==
    /\ svc.pc \in Handling
    /\ svc.rpc.kind \notin (LargeKinds \cup ChunkMapKinds)

\* C22: a well-formed request whose kind is none of the six enumerated
\* kinds falls through the switch: it is answered with error = 1 and
\* result = 0, and the canonical table, the shared pages and the pools are
\* unchanged while it is handled.
C22_UnknownKindRejected ==
    /\ [][HandlingUnknown =>
            /\ pagemap' = pagemap
            /\ shared_page' = shared_page
            /\ provider' = provider]_vars
    /\ [][HandlingUnknown /\ svc'.pc = "poll" =>
            /\ resp'[svc.fd].sent
            /\ resp'[svc.fd].req = svc.rpc
            /\ resp'[svc.fd].error = 1
            /\ resp'[svc.fd].result = 0]_vars
C22_Witness ==
    \E fd \in Fds :
        /\ resp[fd].sent /\ resp[fd].req.kind = UnknownKind
        /\ resp[fd].error = 1 /\ resp[fd].result = 0
        /\ svc.pc = "poll"

(* ------------------- size classes past the last one --------------------- *)

\* C23: for push, pop and reserve every address-sized value of arg1 that is
\* >= the number of large size classes is rejected with error = 1 and the
\* pool is not changed, also when the low bits of arg1 form a valid size
\* class.
C23_LargeClassArgRejected ==
    (LargeDone /\ svc.rpc.arg1 >= NUM_LARGE_CLASSES) =>
        (svc.error = 1 /\ provider[svc.s] = EmptyProvider)

(* --------------- the deadline of the timed wait ------------------------- *)

\* nanoseconds in a second, width of long, and the largest tv_sec drawn
NsecPerSec == 10
LongBits == 6
MaxSec == 2

\* __builtin_add_overflow(a, b, &res) for long: the sum wrapped to the
\* width of long, and whether it did not fit
LongMin == 0 - 2 ^ (LongBits - 1)
LongMax == 2 ^ (LongBits - 1) - 1
add_overflow(a, b) ==
    [res |-> ((a + b - LongMin) % 2 ^ LongBits) + LongMin,
     overflow |-> a + b < LongMin \/ a + b > LongMax]

\* long nsec; time_t carry = __builtin_add_overflow(now.tv_nsec,
\* timeout.tv_nsec, &nsec); timeout.tv_nsec = nsec;
\* timeout.tv_sec += now.tv_sec + carry;
Deadline(now, timeout) ==
    LET r == add_overflow(now.tv_nsec, timeout.tv_nsec)
        carry == IF r.overflow THEN 1 ELSE 0
    IN  [tv_sec |-> timeout.tv_sec + now.tv_sec + carry, tv_nsec |-> r.res]

\* normalised time values
Timespecs == [tv_sec : 0 .. MaxSec, tv_nsec : 0 .. NsecPerSec - 1]

\* wait(expected, timeout) up to pthread_mutex_lock: the deadline that is
\* handed to pthread_cond_timedwait
TimedWaitDeadline ==
    /\ tw.pc = "entry"
    /\ tw' = [tw EXCEPT !.pc = "computed", !.deadline = Deadline(tw.now, tw.timeout)]
    /\ UNCHANGED <<serviceVars, callVars, alloc, maps, kept, launch>>

\* every monotonic time and every timeout
InitDeadline ==
    /\ InitService
    /\ shm = ShmInit /\ hostc = HostcInit /\ childp = ChildInit /\ alloc = AllocIdle
    /\ maps = MapsInit /\ kept = <<>> /\ launch = LaunchIdle
    /\ \E now \in Timespecs, timeout \in Timespecs :
          tw = [pc |-> "entry", now |-> now, timeout |-> timeout,
                deadline |-> [tv_sec |-> 0, tv_nsec |-> 0]]

SpecDeadline == InitDeadline /\ [][TimedWaitDeadline]_vars

\* a time value in nanoseconds
Nanoseconds(t) == t.tv_sec * NsecPerSec + t.tv_nsec

\* C24: the absolute deadline is the normalised sum of the current
\* monotonic time and the relative timeout: its nanosecond field is in
\* [0, NsecPerSec) and its seconds field carries the overflow, for every
\* current time and every timeout with nanoseconds in [0, NsecPerSec).
C24_DeadlineNormalised ==
    tw.pc = "computed" =>
        /\ tw.deadline.tv_nsec \in 0 .. NsecPerSec - 1
        /\ Nanoseconds(tw.deadline) = Nanoseconds(tw.now) + Nanoseconds(tw.timeout)

(* --------------------- one dispatch for each send ----------------------- *)

\* the host thread is inside has_child_exited
InProbe ==
    \/ hostc.pc \in {"probe", "probe_poll"}
    \/ hostc.pc \in {"sig_lock", "sig_set"} /\ hostc.ra = "probe_poll"

\* C25: each send() dispatches its function to the child exactly once: the
\* host raises is_child_executing only in send's own signal(true) and in
\* the shutdown signal, and a step of has_child_exited, in either build,
\* leaves is_child_executing, function_index and msg_buffer unchanged.
C25_SingleDispatch ==
    /\ [][FlagRaised => hostc.pc = "sig_set" /\ hostc.ra \in {"tw_lock", "exit_wait"}]_vars
    /\ [][InProbe /\ hostc' # hostc =>
            /\ shm'.is_child_executing = shm.is_child_executing
            /\ shm'.function_index = shm.function_index
            /\ shm'.msg_buffer = shm.msg_buffer]_vars

(* ------------- the service and destroyed Sandbox Instances -------------- *)

\* the run loop holds a copy of a registration and works with the memory
\* provider and the shared page it points to
UsesSandbox == svc.pc \in {"dispatch", "copy_read", "copy_write"}

\* C26: the service thread never uses a sandbox's memory provider or shared
\* pagemap page after the owning Sandbox Instance has been destroyed: the
\* copy of a registration it works with refers to a live instance.
C26_ServiceUsesLiveSandbox == UsesSandbox => maps[svc.s].live

(* ---------------- events arrive for registered descriptors -------------- *)

\* the run loop has an event (data or end-of-file) for svc.fd and has not
\* yet looked the descriptor up or erased it
HasEvent == svc.pc \in {"read", "lookup", "lookup_locked", "eof", "eof_locked"}

\* C27: whenever the run loop receives an event for a descriptor, the
\* descriptor has a registration: a descriptor is in the poller only while
\* it is registered, a registration is removed only by the end-of-file
\* handling of that descriptor, no request is dropped for lack of a
\* registration and the end-of-file handler erases an entry that exists.
C27_EventsHaveRegistration ==
    /\ [](alive => \A fd \in polled : ranges[fd] # NoSandbox)
    /\ [](alive /\ HasEvent => ranges[svc.fd] # NoSandbox)
    /\ [][\A fd \in Fds : ranges[fd] # NoSandbox /\ ranges'[fd] = NoSandbox =>
             svc.pc = "eof_locked" /\ svc.fd = fd]_vars
    /\ [][svc.pc = "lookup_locked" => svc'.pc # "poll"]_vars
C27_Witness ==
    /\ svc.pc = "eof_locked" /\ ranges[svc.fd] # NoSandbox
    /\ host.pc = "register_fd" /\ host.fd # svc.fd
    /\ ranges[host.fd] = host.sb /\ host.fd \notin polled

(* ---------------- wait_for_child_exit: the value returned ---------------- *)

\* wait_for_child_exit returns in this step: at once from its first test, or
\* from the blocking wait
ExitWaitReturns ==
    \/ hostc.pc = "exit_wait" /\ hostc'.pc # "exit_wait"
    \/ /\ hostc.pc = "idle" /\ hostc'.pc \in {"idle", "destroy"}
       /\ hostc' # hostc

\* wait_for_child_exit is called after an earlier call of it has returned
SecondExitWait ==
    /\ hostc.pc = "idle" /\ hostc.retval # NoReturn
    /\ hostc' # hostc /\ hostc'.ncalls = hostc.ncalls

\* C28: wait_for_child_exit returns the child's exit status and leaves
\* child_exited true, whether it found the exit recorded or waited for the
\* child itself; a second call returns the same value at once, without
\* signalling or waiting again.
C28_ExitStatusReturned ==
    /\ [][ExitWaitReturns =>
             hostc'.child_exited /\ hostc'.retval = childp.status]_vars
    /\ [][SecondExitWait =>
             hostc'.pc \in {"idle", "destroy"} /\ hostc'.retval = hostc.retval]_vars

(* --------------- accepted updates and the Range's buckets --------------- *)

\* the addresses of bucket b all lie inside the range of sandbox sb
BucketInRange(sb, b) ==
    /\ RangeBase(sb) <= b * SUPERSLAB_SIZE
    /\ (b + 1) * SUPERSLAB_SIZE <= RangeTop(sb)

\* the service thread applies a metadata request in this step
ChunkMapApplied ==
    /\ svc.pc = "dispatch" /\ svc'.pc # "dispatch"
    /\ svc.rpc.kind \in ChunkMapKinds

\* C29: an accepted ChunkMapSet / SetRange / ClearRange, bucket-aligned or
\* not, changes only canonical-table entries whose bucket lies entirely
\* inside the requesting sandbox's range, which starts after the header of
\* the shared region.
C29_UpdatesStayInsideRange ==
    [][ChunkMapApplied =>
          \A b \in Buckets :
              pagemap'[b] # pagemap[b] => BucketInRange(svc.s, b)]_vars

====
